---- MODULE Spec2Model ----
(***************************************************************************)
(* Gesture / emote decision pipeline of swe-d3n/hackcamp.                  *)
(*                                                                         *)
(* Time is counted in ticks of 0.05 s (20 ticks per second), so that every *)
(* duration of the source (0.15 s, 0.3 s, 0.5 s, 1.0 s, 1.5 s, 2.0 s) is   *)
(* an integer.  `now` is the value returned by time.time(); it starts at   *)
(* Epoch, a value far above every cooldown, as the wall clock does.        *)
(*                                                                         *)
(* The repository holds several programs that share the classes modelled   *)
(* here.  `session` says which one is running:                             *)
(*   "recognizer"  the loop of clash_emote_recognizer.py (__main__)        *)
(*   "matcher"     the loop of test_ultimate_detector.py                   *)
(*   "mouse"       the loop of mouse_controller.py (__main__)              *)
(*   "clash"       ClashEmoteApp.run                                       *)
(*   "handmouse"   HandMouseEmoteApp.run                                   *)
(* The remaining values of `session` exercise one class or function on its *)
(* own, with `probe` holding its fields, arguments and result.             *)
(***************************************************************************)
EXTENDS Integers, Sequences, FiniteSets, TLC

VARIABLES
    session,      \* which program is running
    now,          \* last reading of time.time(), in ticks
    recognizer,   \* ClashEmoteRecognizer: fields as in the source
    matcher,      \* UltimateEmoteMatcher: fields as in the source
    result,       \* dict returned by the last get_smoothed_emote / match_emote
    lastFire,     \* observer: label -> time of the last triggered=True for it
    run,          \* observer: current uninterrupted run of one smoothed label
    controller,   \* MouseController: fields as in the source
    device,       \* the OS pointer and button that pyautogui drives
    phase,        \* "running", "stopping" (frame loop left), "ended" (after cleanup)
    app,          \* ClashEmoteApp / HandMouseEmoteApp: fields as in the source
    frame,        \* observer: what the latest step did (commands, exception, output)
    seen,         \* observer: gesture, release and press seen before the latest step
    stretch,      \* observer: current uninterrupted stretch of frames with >= 2 hands
    probe         \* a class or function exercised on its own: the object's fields,
                  \* the arguments of the latest call and what it returned

smootherVars == <<recognizer, matcher, result, lastFire, run>>

mouseVars == <<controller, device, phase, frame, seen>>

appVars == <<app, stretch>>

vars == <<session, now, recognizer, matcher, result, lastFire, run,
          controller, device, phase, app, frame, seen, stretch, probe>>

----------------------------------------------------------------------------
(* Units and bounds *)

\* time.time() when the program starts
Epoch == 100

\* length of the modelled session of the recognizer / matcher, in ticks
MaxSmootherTime == 80

\* Python's None
None == "None"

Max(a, b) == IF a >= b THEN a ELSE b
Min(a, b) == IF a <= b THEN a ELSE b

----------------------------------------------------------------------------
(* collections.deque(maxlen=n).append *)

DequeAppend(h, e, n) ==
    IF Len(h) < n THEN Append(h, e) ELSE Append(Tail(h), e)

CountOf(h, e) == Cardinality({i \in DOMAIN h : h[i] = e})

FirstIndex(h, e) == CHOOSE i \in DOMAIN h : h[i] = e /\ \A j \in DOMAIN h : h[j] = e => i <= j

----------------------------------------------------------------------------
(* ClashEmoteRecognizer *)

\* labels detect_emote can return (besides None); two of the three emotes
\* are enough to have a label change to another label
Emotes == {"GOBLIN_CRYING", "WIZARD_67"}

\* smoothing_frames is a constructor argument (the apps pass 8); the model
\* runs the recognizer with a shorter window
smoothing_frames == 4
hold_time == 20
cooldown == 40

RecognizerInit ==
    [emote_history |-> <<>>,
     current_emote |-> None,
     emote_start_time |-> 0,
     emote_triggered |-> FALSE,
     last_trigger_time |-> 0]

\* max(emote_counts.keys(), key=count): the label with the highest count;
\* among equal counts the first key of the dict, i.e. the label that occurs
\* first in the history.  Then the frequency test.
SmoothedEmote(h) ==
    LET present == {h[i] : i \in DOMAIN h} \ {None}
    IN  IF present = {} THEN None
        ELSE LET best == CHOOSE e \in present :
                           \A f \in present \ {e} :
                              \/ CountOf(h, e) > CountOf(h, f)
                              \/ /\ CountOf(h, e) = CountOf(h, f)
                                 /\ FirstIndex(h, e) < FirstIndex(h, f)
             IN  IF 2 * CountOf(h, best) < Len(h) THEN None ELSE best

ShouldTrigger_NoCooldown(hold_duration, emote_triggered, current_time, last_trigger_time) ==
    /\ hold_duration >= hold_time
    /\ ~emote_triggered

ShouldTrigger_NoHold(hold_duration, emote_triggered, current_time, last_trigger_time) ==
    /\ ~emote_triggered
    /\ current_time - last_trigger_time > cooldown

ShouldTrigger_NoLatch(hold_duration, emote_triggered, current_time, last_trigger_time) ==
    /\ hold_duration >= hold_time
    /\ current_time - last_trigger_time > cooldown

\* fires only on the call at which the hold time completes
ShouldTrigger_AtCompletion(hold_duration, emote_triggered, current_time, last_trigger_time) ==
    /\ hold_duration = hold_time
    /\ ~emote_triggered
    /\ current_time - last_trigger_time > cooldown

ShouldTrigger(hold_duration, emote_triggered, current_time, last_trigger_time) ==
    /\ hold_duration >= hold_time
    /\ ~emote_triggered
    /\ current_time - last_trigger_time > cooldown

\* the else branch of `if smoothed_emote`
NoEmoteDetected_KeepCandidate(self) == self

NoEmoteDetected(self) ==
    [self EXCEPT !.current_emote = None, !.emote_triggered = FALSE]

\* hold_progress is kept as its numerator over hold_time:
\* min(hold_duration / hold_time, 1.0) = Min(hold_duration, hold_time) / hold_time
get_smoothed_emote(self, emote, current_time) ==
    LET h == DequeAppend(self.emote_history, emote, smoothing_frames)
        s0 == [self EXCEPT !.emote_history = h]
    IN  IF Len(h) < smoothing_frames \div 2
        THEN [self |-> s0, smoothed |-> FALSE,
              result |-> [emote |-> emote, triggered |-> FALSE, hold_progress |-> 0]]
        ELSE
        LET smoothed_emote == SmoothedEmote(h)
        IN  IF smoothed_emote # None
            THEN IF smoothed_emote # self.current_emote
                 THEN [self |-> [s0 EXCEPT !.current_emote = smoothed_emote,
                                           !.emote_start_time = current_time,
                                           !.emote_triggered = FALSE],
                       smoothed |-> TRUE,
                       result |-> [emote |-> smoothed_emote, triggered |-> FALSE,
                                   hold_progress |-> 0]]
                 ELSE LET hold_duration == current_time - self.emote_start_time
                          triggered == ShouldTrigger(hold_duration, self.emote_triggered,
                                                     current_time, self.last_trigger_time)
                      IN  [self |-> IF triggered
                                    THEN [s0 EXCEPT !.emote_triggered = TRUE,
                                                    !.last_trigger_time = current_time]
                                    ELSE s0,
                           smoothed |-> TRUE,
                           result |-> [emote |-> smoothed_emote, triggered |-> triggered,
                                       hold_progress |-> Min(hold_duration, hold_time)]]
            ELSE [self |-> NoEmoteDetected(s0),
                  smoothed |-> TRUE,
                  result |-> [emote |-> None, triggered |-> FALSE, hold_progress |-> 0]]

\* reset as it would be if it also forgot the last trigger
recognizer_reset_ForgetTrigger(self) ==
    [self EXCEPT !.emote_history = <<>>,
                 !.current_emote = None,
                 !.emote_triggered = FALSE,
                 !.last_trigger_time = 0]

recognizer_reset(self) ==
    [self EXCEPT !.emote_history = <<>>,
                 !.current_emote = None,
                 !.emote_triggered = FALSE]

----------------------------------------------------------------------------
(* UltimateEmoteMatcher *)

\* labels of the trained classifier: two of the three emotes and the
\* neutral class
Neutral == "None/Neutral"
MatcherEmotes == {"Goblin Facepalm", "Wizard Magic"}

\* confidences the classifier reports, in percent
Confidences == {60, 90}

confidence_threshold == 75
match_hold_time == 30
trigger_cooldown == 40
prediction_history_maxlen == 3

MatcherInit ==
    [prediction_history |-> <<>>,
     current_match |-> None,
     match_start_time |-> None,
     last_trigger_time |-> 0]

Votes(h, e) == Cardinality({i \in DOMAIN h : h[i].emote = e})

FirstVote(h, e) ==
    CHOOSE i \in DOMAIN h : h[i].emote = e /\ \A j \in DOMAIN h : h[j].emote = e => i <= j

RECURSIVE ConfidenceSum(_, _)
ConfidenceSum(h, e) ==
    IF h = <<>> THEN 0
    ELSE (IF Head(h).emote = e THEN Head(h).confidence ELSE 0) + ConfidenceSum(Tail(h), e)

\* smooth_prediction, on the history after the append: the emote with the
\* most votes (the first one inserted among equals) and the sum and number of
\* its confidences; avg_confidence is confidence_sum / votes
smooth_prediction(h) ==
    LET present == {h[i].emote : i \in DOMAIN h}
        best_emote == CHOOSE e \in present :
                        \A f \in present \ {e} :
                           \/ Votes(h, e) > Votes(h, f)
                           \/ /\ Votes(h, e) = Votes(h, f)
                              /\ FirstVote(h, e) < FirstVote(h, f)
    IN  [emote |-> best_emote,
         confidence_sum |-> ConfidenceSum(h, best_emote),
         votes |-> Votes(h, best_emote)]

MatchShouldTrigger(elapsed, current_time, last_trigger_time) ==
    /\ elapsed >= match_hold_time
    /\ current_time - last_trigger_time > trigger_cooldown

\* the frame in which extract_features returns no features (no face)
NoFeatures == [emote |-> None, confidence |-> 0]

\* match_emote; prediction is what classifier.predict returns for the frame's
\* features, or NoFeatures.  hold_progress is kept as its numerator
\* over match_hold_time.
match_emote(self, prediction, current_time) ==
    IF prediction = NoFeatures
    THEN [self |-> [self EXCEPT !.prediction_history = <<>>],
          smoothed |-> FALSE,
          result |-> [emote |-> None, triggered |-> FALSE, hold_progress |-> 0]]
    ELSE
    LET h == DequeAppend(self.prediction_history, prediction, prediction_history_maxlen)
        s0 == [self EXCEPT !.prediction_history = h]
        smoothed == smooth_prediction(h)
        emote_name == smoothed.emote
    IN  IF smoothed.confidence_sum >= confidence_threshold * smoothed.votes
           /\ emote_name # Neutral
        THEN IF self.current_match = emote_name
             THEN LET elapsed == current_time - self.match_start_time
                      triggered == MatchShouldTrigger(elapsed, current_time,
                                                      self.last_trigger_time)
                  IN  [self |-> IF triggered
                                THEN [s0 EXCEPT !.last_trigger_time = current_time]
                                ELSE s0,
                       smoothed |-> TRUE,
                       result |-> [emote |-> emote_name, triggered |-> triggered,
                                   hold_progress |-> Min(elapsed, match_hold_time)]]
             ELSE [self |-> [s0 EXCEPT !.current_match = emote_name,
                                       !.match_start_time = current_time],
                   smoothed |-> TRUE,
                   result |-> [emote |-> emote_name, triggered |-> FALSE,
                               hold_progress |-> 0]]
        ELSE [self |-> [s0 EXCEPT !.current_match = None,
                                  !.match_start_time = None],
              smoothed |-> TRUE,
              result |-> [emote |-> None, triggered |-> FALSE, hold_progress |-> 0]]

----------------------------------------------------------------------------
(* The input device behind pyautogui, and MouseController *)

\* pyautogui.size()
screen_width == 40
screen_height == 30

\* MouseController parameters, as the apps pass them from Config; factors in
\* tenths, hand coordinates and tracking zone in hundredths of the frame
smoothing_factor == 3
drag_smoothing_factor == 7
click_cooldown == 6
screen_margin == 0
movement_threshold == 2
drag_movement_threshold == 0
tracking_zone_min == 10
tracking_zone_max == 90
min_drag_time == 3
click_distance == 10

\* smooth_x / smooth_y are floats; the model keeps them in fixed point, in
\* units of 1/SubPixel pixel
SubPixel == 10

\* the OS pointer and the state of its left button
DeviceInit ==
    [pointer |-> <<screen_width \div 2, screen_height \div 2>>, button |-> FALSE]

ControllerInit ==
    [smooth_x |-> (screen_width \div 2) * SubPixel,
     smooth_y |-> (screen_height \div 2) * SubPixel,
     last_click_time |-> 0,
     previous_gesture |-> "open",
     is_clicking |-> FALSE,
     is_dragging |-> FALSE,
     drag_start_position |-> None,
     drag_start_time |-> 0]

\* every pyautogui command may raise FailSafeException; `faults` is the set
\* of call sites that raise in this call.  A command that raises has no
\* effect on the device (pyautogui checks before it acts).
\* In update at most one command raises outside an except branch, and the
\* release of the except branch may raise after it.
UpdateFaults ==
    {{}, {"moveTo"}, {"mouseDown"}, {"mouseUp"},
     {"moveTo", "handler_mouseUp"}, {"mouseUp", "handler_mouseUp"}}

Issued(m, cmd, ok) == [m EXCEPT !.cmds = Append(@, [cmd |-> cmd, ok |-> ok])]

MoveTo(m, x, y, ok) ==
    LET m1 == Issued(m, "moveTo", ok)
    IN  IF ok THEN [m1 EXCEPT !.dev.pointer = <<x, y>>] ELSE m1

MouseDown(m, ok) ==
    LET m1 == Issued(m, "mouseDown", ok)
    IN  IF ok THEN [m1 EXCEPT !.dev.button = TRUE] ELSE m1

MouseUp(m, ok) ==
    LET m1 == Issued(m, "mouseUp", ok)
    IN  IF ok THEN [m1 EXCEPT !.dev.button = FALSE] ELSE m1

\* the state the methods work on: the controller, the device, the commands
\* issued so far, whether an exception is propagating, what handle_click
\* printed and the gesture it was called with; for the apps also the app's
\* fields, whether the frame switched to emote mode and the emote it triggered
Machine(self, dev) ==
    [self |-> self, dev |-> dev, cmds |-> <<>>, raised |-> FALSE, printed |-> None,
     gesture |-> None, app |-> None, entered |-> FALSE, triggered |-> None,
     escaped |-> FALSE, updated |-> FALSE]

\* remapped * dim of map_to_screen, truncated by int(): the position in the
\* tracking zone, clamped to [0, 1], scaled to dim pixels. The quotient
\* (hand - zone_min) / zone_width changes sign with zone_width, so an inverted
\* zone is compared the other way round; zone_width = 0 never gets here.
Remap_WholeFrame(h, dim, zone_min, zone_max) ==
    IF h <= 0 THEN 0 ELSE IF h >= 100 THEN dim ELSE (h * dim) \div 100

Remap(h, dim, zone_min, zone_max) ==
    IF zone_max > zone_min
    THEN IF h <= zone_min THEN 0
         ELSE IF h >= zone_max THEN dim
         ELSE ((h - zone_min) * dim) \div (zone_max - zone_min)
    ELSE IF h >= zone_min THEN 0
         ELSE IF h <= zone_max THEN dim
         ELSE ((zone_min - h) * dim) \div (zone_min - zone_max)

\* max(margin, min(v, dim - margin))
Margin(v, dim, margin) == Max(margin, Min(v, dim - margin))

map_to_screen(hand_x, hand_y) ==
    <<Margin(Remap(hand_x, screen_width, tracking_zone_min, tracking_zone_max),
             screen_width, screen_margin),
      Margin(Remap(hand_y, screen_height, tracking_zone_min, tracking_zone_max),
             screen_height, screen_margin)>>

\* MouseController.__init__ for the parameters a caller may pass: it stores
\* them as they come and raises nothing
MouseControllerNew(screen, zone, margin) ==
    [screen_width |-> screen[1], screen_height |-> screen[2],
     tracking_zone_min |-> zone[1], tracking_zone_max |-> zone[2],
     screen_margin |-> margin]

\* map_to_screen on a controller built with any parameters: the division by
\* zone_width raises ZeroDivisionError when the zone is empty
map_to_screen_of(self, hand_x, hand_y) ==
    IF self.tracking_zone_max - self.tracking_zone_min = 0
    THEN [raised |-> "ZeroDivisionError", point |-> <<0, 0>>]
    ELSE [raised |-> None,
          point |-> <<Margin(Remap(hand_x, self.screen_width,
                                   self.tracking_zone_min, self.tracking_zone_max),
                             self.screen_width, self.screen_margin),
                      Margin(Remap(hand_y, self.screen_height,
                                   self.tracking_zone_min, self.tracking_zone_max),
                             self.screen_height, self.screen_margin)>>]

smooth_position(self, new_x, new_y) ==
    LET factor == IF self.is_dragging THEN drag_smoothing_factor ELSE smoothing_factor
    IN  [self EXCEPT
            !.smooth_x = (factor * new_x * SubPixel + (10 - factor) * self.smooth_x) \div 10,
            !.smooth_y = (factor * new_y * SubPixel + (10 - factor) * self.smooth_y) \div 10]

\* (dx^2 + dy^2)^0.5 compared with an integer bound, on the squares
DistanceSq(p, q) == (p[1] - q[1]) * (p[1] - q[1]) + (p[2] - q[2]) * (p[2] - q[2])

\* the except branch of move_cursor and of the release in handle_click:
\* release if dragging, then re-raise; the release itself may raise
FailSafeHandler(m, faults) ==
    IF m.self.is_dragging
    THEN IF "handler_mouseUp" \in faults
         THEN [MouseUp(m, FALSE) EXCEPT !.raised = TRUE]
         ELSE [MouseUp(m, TRUE) EXCEPT !.self.is_dragging = FALSE, !.raised = TRUE]
    ELSE [m EXCEPT !.raised = TRUE]

move_cursor(m, hand_x, hand_y, faults) ==
    LET screen == map_to_screen(hand_x, hand_y)
        self1 == smooth_position(m.self, screen[1], screen[2])
        smooth_x == self1.smooth_x \div SubPixel
        smooth_y == self1.smooth_y \div SubPixel
        threshold == IF self1.is_dragging THEN drag_movement_threshold
                     ELSE movement_threshold
        m1 == [m EXCEPT !.self = self1]
    IN  IF DistanceSq(<<smooth_x, smooth_y>>, m.dev.pointer) > threshold * threshold
        THEN IF "moveTo" \in faults
             THEN FailSafeHandler(MoveTo(m1, smooth_x, smooth_y, FALSE), faults)
             ELSE MoveTo(m1, smooth_x, smooth_y, TRUE)
        ELSE m1

IsClick_Inclusive(drag_distance_sq, drag_duration) ==
    /\ drag_distance_sq <= click_distance * click_distance
    /\ drag_duration <= min_drag_time

IsClick(drag_distance_sq, drag_duration) ==
    /\ drag_distance_sq < click_distance * click_distance
    /\ drag_duration < min_drag_time

PressAllowed_Inclusive(self, current_time) ==
    /\ current_time - self.last_click_time >= click_cooldown
    /\ ~self.is_dragging

PressAllowed(self, current_time) ==
    /\ current_time - self.last_click_time > click_cooldown
    /\ ~self.is_dragging

handle_click(m0, gesture, current_time, faults) ==
    LET m == [m0 EXCEPT !.gesture = gesture]
        self == m.self
        after ==
          IF gesture = "closed" /\ self.previous_gesture = "open"
          THEN IF PressAllowed(self, current_time)
               THEN IF "mouseDown" \in faults
                    THEN [MouseDown(m, FALSE) EXCEPT !.raised = TRUE]
                    ELSE [MouseDown(m, TRUE) EXCEPT
                             !.self.is_dragging = TRUE,
                             !.self.drag_start_position = m.dev.pointer,
                             !.self.drag_start_time = current_time,
                             !.self.is_clicking = TRUE,
                             !.printed = "Drag started!"]
               ELSE m
          ELSE IF gesture = "open" /\ self.previous_gesture = "closed"
          THEN IF self.is_dragging
               THEN LET drag_distance_sq == DistanceSq(m.dev.pointer, self.drag_start_position)
                        drag_duration == current_time - self.drag_start_time
                    IN  IF "mouseUp" \in faults
                        THEN FailSafeHandler(MouseUp(m, FALSE), faults)
                        ELSE [MouseUp(m, TRUE) EXCEPT
                                 !.self.is_dragging = FALSE,
                                 !.self.last_click_time = current_time,
                                 !.printed = IF IsClick(drag_distance_sq, drag_duration)
                                             THEN "Click!" ELSE "Drag ended"]
               ELSE m
          ELSE m
    IN  IF after.raised THEN after
        ELSE [after EXCEPT
                 !.self.is_clicking = IF gesture = "open" THEN FALSE ELSE @,
                 !.self.previous_gesture = gesture]

update(m, hand_x, hand_y, gesture, current_time, faults) ==
    LET m1 == move_cursor([m EXCEPT !.updated = TRUE], hand_x, hand_y, faults)
    IN  IF m1.raised THEN m1 ELSE handle_click(m1, gesture, current_time, faults)

\* cleanup swallows whatever its mouseUp raises
cleanup_Unguarded(m, faults) ==
    [MouseUp(m, "cleanup_mouseUp" \notin faults) EXCEPT
        !.self.is_dragging = FALSE,
        !.self.is_clicking = FALSE]

cleanup(m, faults) ==
    IF m.self.is_dragging
    THEN [MouseUp(m, "cleanup_mouseUp" \notin faults) EXCEPT
             !.self.is_dragging = FALSE,
             !.self.is_clicking = FALSE]
    ELSE m

----------------------------------------------------------------------------
(* The recognizer and matcher loops, with an observer of the returned dicts *)

\* what the observer records of a call: the previous call's trigger is
\* folded into lastFire, and the run of the smoothed label is extended or
\* restarted.  A call that returns before the majority vote has no smoothed
\* label and ends the run.
ObserveFire(t) ==
    IF result.triggered THEN [lastFire EXCEPT ![result.emote] = t] ELSE lastFire

ObserveRun(smoothed, res, t) ==
    IF ~smoothed \/ res.emote = None
    THEN [label |-> None, since |-> 0, fires |-> 0]
    ELSE IF res.emote = run.label
         THEN [run EXCEPT !.fires = @ + (IF res.triggered THEN 1 ELSE 0)]
         ELSE [label |-> res.emote, since |-> t,
               fires |-> IF res.triggered THEN 1 ELSE 0]

\* time between two frames of the recognizer / matcher loop, in ticks
SmootherDt == {0, 10, 20}

\* one iteration of the loop of clash_emote_recognizer.py: detect_emote
\* yields `emote`, get_smoothed_emote is called at time now + dt
RecognizerFrame ==
    /\ session = "recognizer"
    /\ \E dt \in SmootherDt, emote \in Emotes \cup {None} :
         /\ now + dt <= Epoch + MaxSmootherTime
         /\ LET r == get_smoothed_emote(recognizer, emote, now + dt)
            IN  /\ now' = now + dt
                /\ recognizer' = r.self
                /\ result' = r.result
                /\ lastFire' = ObserveFire(now)
                /\ run' = ObserveRun(r.smoothed, r.result, now + dt)
    /\ UNCHANGED <<session, probe, matcher, mouseVars, appVars>>

RecognizerReset ==
    /\ session = "recognizer"
    /\ recognizer.emote_history # <<>>
    /\ recognizer' = recognizer_reset(recognizer)
    /\ lastFire' = ObserveFire(now)
    /\ result' = [emote |-> None, triggered |-> FALSE, hold_progress |-> 0]
    /\ run' = [label |-> None, since |-> 0, fires |-> 0]
    /\ UNCHANGED <<session, probe, now, matcher, mouseVars, appVars>>

\* one iteration of the loop of test_ultimate_detector.py: the frame has no
\* face, or the classifier predicts (emote, confidence)
MatcherFrame ==
    /\ session = "matcher"
    /\ \E dt \in SmootherDt,
          prediction \in {NoFeatures} \cup [emote : MatcherEmotes \cup {Neutral},
                                      confidence : Confidences] :
         /\ now + dt <= Epoch + MaxSmootherTime
         /\ LET r == match_emote(matcher, prediction, now + dt)
            IN  /\ now' = now + dt
                /\ matcher' = r.self
                /\ result' = r.result
                /\ lastFire' = ObserveFire(now)
                /\ run' = ObserveRun(r.smoothed, r.result, now + dt)
    /\ UNCHANGED <<session, probe, recognizer, mouseVars, appVars>>

NoResult == [emote |-> None, triggered |-> FALSE, hold_progress |-> 0]

\* the parts of the state a program does not have
NoMouse ==
    /\ controller = None
    /\ device = None
    /\ phase = "running"
    /\ frame = None
    /\ seen = None
    /\ app = None
    /\ stretch = None
    /\ probe = None

NoSmoother ==
    /\ probe = None
    /\ recognizer = None
    /\ matcher = None
    /\ result = None
    /\ lastFire = None
    /\ run = None

InitRecognizer ==
    /\ session = "recognizer"
    /\ NoMouse
    /\ now = Epoch
    /\ recognizer = RecognizerInit
    /\ matcher = None
    /\ result = NoResult
    /\ lastFire = [e \in Emotes |-> 0]
    /\ run = [label |-> None, since |-> 0, fires |-> 0]

InitMatcher ==
    /\ session = "matcher"
    /\ NoMouse
    /\ now = Epoch
    /\ recognizer = None
    /\ matcher = MatcherInit
    /\ result = NoResult
    /\ lastFire = [e \in MatcherEmotes |-> 0]
    /\ run = [label |-> None, since |-> 0, fires |-> 0]

NextRecognizer == RecognizerFrame \/ RecognizerReset

SpecRecognizer == InitRecognizer /\ [][NextRecognizer]_vars

\* The recognizer loop that goes on: each iteration reads a frame from the
\* camera before it calls get_smoothed_emote, so as long as the loop runs
\* there is always a later call at a later time.time(). The modelled clock
\* ends at MaxLiveTime.
MaxLiveTime == 100
LiveDt == {10, 20}

InitRecognizerLive ==
    /\ session = "recognizerlive"
    /\ NoMouse
    /\ now = Epoch
    /\ recognizer = RecognizerInit
    /\ matcher = None
    /\ result = NoResult
    /\ lastFire = [e \in Emotes |-> 0]
    /\ run = [label |-> None, since |-> 0, fires |-> 0]

LaterFrame ==
    /\ session = "recognizerlive"
    /\ \E dt \in LiveDt, emote \in Emotes \cup {None} :
         /\ now + dt <= Epoch + MaxLiveTime
         /\ \E r \in {get_smoothed_emote(recognizer, emote, now + dt)} :
                /\ now' = now + dt
                /\ recognizer' = r.self
                /\ result' = r.result
                /\ lastFire' = ObserveFire(now)
                /\ run' = ObserveRun(r.smoothed, r.result, now + dt)
    /\ UNCHANGED <<session, probe, matcher, mouseVars, appVars>>

ClockEnded == \A dt \in LiveDt : now + dt > Epoch + MaxLiveTime

NextRecognizerLive == LaterFrame

SpecRecognizerLive ==
    InitRecognizerLive /\ [][NextRecognizerLive]_vars /\ WF_vars(LaterFrame)

NextMatcher == MatcherFrame

SpecMatcher == InitMatcher /\ [][NextMatcher]_vars

\* either of the two smoothers
NextSmoother == RecognizerFrame \/ RecognizerReset \/ MatcherFrame

SpecSmoother == (InitRecognizer \/ InitMatcher) /\ [][NextSmoother]_vars

----------------------------------------------------------------------------
(* The loop of mouse_controller.py, with an observer of the device *)

\* length of the modelled session of the mouse loop, in ticks
MaxMouseTime == 12

\* time between two frames of the mouse loop, in ticks
MouseDt == {2, 3, 4}

\* hand positions (index finger tip / wrist), in hundredths of the frame:
\* they map to the screen columns 20 and 35 and to the row 15
HandXs == {50, 80}
HandYs == {50}

Gestures == {"open", "closed"}

HasCmd(f, cmd) == \E i \in DOMAIN f.cmds : f.cmds[i].cmd = cmd
CountCmd(f, cmd) == Cardinality({i \in DOMAIN f.cmds : f.cmds[i].cmd = cmd})
DidCmd(f, cmd) == \E i \in DOMAIN f.cmds : f.cmds[i].cmd = cmd /\ f.cmds[i].ok

IdleFrame ==
    [op |-> "none", cmds |-> <<>>, raised |-> FALSE, printed |-> None, gesture |-> None,
     dragging_before |-> FALSE, num_hands |-> 0, entered |-> FALSE, triggered |-> None,
     updated |-> FALSE, emote_mode_before |-> FALSE]

FrameOf(op, m, num_hands) ==
    [op |-> op, cmds |-> m.cmds, raised |-> m.raised, printed |-> m.printed,
     gesture |-> m.gesture, dragging_before |-> controller.is_dragging,
     num_hands |-> num_hands, entered |-> m.entered, triggered |-> m.triggered,
     updated |-> m.updated,
     emote_mode_before |-> IF session = "clash" THEN app.emote_mode ELSE FALSE]

\* the observer folds the step before the latest one into `seen`: the gesture
\* handle_click was last called with, the time of the last release made by
\* handle_click, the position and time of the last press
SeenInit ==
    [gesture |-> "open", release |-> 0, press_pos |-> None, press_time |-> 0]

Fold ==
    [gesture |-> IF frame.gesture # None THEN frame.gesture ELSE seen.gesture,
     release |-> IF frame.printed \in {"Click!", "Drag ended"} THEN now ELSE seen.release,
     press_pos |-> IF frame.printed = "Drag started!" THEN device.pointer ELSE seen.press_pos,
     press_time |-> IF frame.printed = "Drag started!" THEN now ELSE seen.press_time]

\* one iteration of the loop with a hand in the frame: controller.update;
\* FailSafeException leaves the loop
MouseUpdate ==
    /\ session = "mouse"
    /\ phase = "running"
    /\ \E dt \in MouseDt, hand_x \in HandXs, hand_y \in HandYs, gesture \in Gestures,
          faults \in UpdateFaults :
         /\ now + dt <= Epoch + MaxMouseTime
         /\ \E m \in {update(Machine(controller, device), hand_x, hand_y, gesture,
                             now + dt, faults)} :
                /\ now' = now + dt
                /\ controller' = m.self
                /\ device' = m.dev
                /\ frame' = FrameOf("update", m, 1)
                /\ phase' = IF m.raised THEN "stopping" ELSE "running"
    /\ seen' = Fold
    /\ UNCHANGED <<session, probe, smootherVars, appVars>>

\* the loop ends without an exception: no frame from the camera, or key q
MouseQuit ==
    /\ session = "mouse"
    /\ phase = "running"
    /\ phase' = "stopping"
    /\ frame' = IdleFrame
    /\ seen' = Fold
    /\ UNCHANGED <<session, probe, now, controller, device, smootherVars, appVars>>

\* finally: controller.cleanup(); HandMouseEmoteApp.cleanup clears running
\* before it
Teardown ==
    /\ session \in {"mouse", "clash", "handmouse"}
    /\ phase = "stopping"
    /\ \E faults \in SUBSET {"cleanup_mouseUp"} :
         LET m == cleanup(Machine(controller, device), faults)
         IN  /\ controller' = m.self
             /\ device' = m.dev
             /\ frame' = FrameOf("cleanup", m, 0)
    /\ phase' = "ended"
    /\ seen' = Fold
    /\ app' = IF session = "handmouse" THEN [app EXCEPT !.running = FALSE] ELSE app
    /\ UNCHANGED <<session, probe, now, smootherVars, stretch>>

InitMouse ==
    /\ session = "mouse"
    /\ now = Epoch
    /\ NoSmoother
    /\ controller = ControllerInit
    /\ device = DeviceInit
    /\ phase = "running"
    /\ frame = IdleFrame
    /\ seen = SeenInit
    /\ app = None
    /\ stretch = None

NextMouse == MouseUpdate \/ MouseQuit \/ Teardown

SpecMouse == InitMouse /\ [][NextMouse]_vars

----------------------------------------------------------------------------
(* ClashEmoteApp of clash_controller.py *)

\* length of the modelled session of ClashEmoteApp, in ticks
MaxClashTime == 55

\* number of drags started in the modelled session of ClashEmoteApp
MaxClashPresses == 1

\* time between two frames of ClashEmoteApp, in ticks
ClashDt == {5, 10}

\* the wrist of the single hand, in hundredths of the frame
WristX == 50
WristY == 50

\* call sites that raise FailSafeException in one frame of ClashEmoteApp:
\* those of update with one hand, those of cleanup and trigger_emote with two
ClashFaults(num_hands) ==
    IF num_hands = 1 THEN UpdateFaults
    ELSE IF num_hands >= 2
         THEN {{}, {"cleanup_mouseUp"}, {"press_e"}, {"press_key"}}
         ELSE {{}}

\* seconds between emote triggers, and length of the two-hand debounce
emote_cooldown == 40
two_hand_check_interval == 10

\* labels of detect_emote_rule_based / the classifier and their keys
ClashEmotes == {"GOBLIN", "WIZARD"}

key_map == [e \in ClashEmotes |-> IF e = "GOBLIN" THEN "press g" ELSE "press w"]

EmoteKeys == {"press e", "press g", "press w"}

ClashAppInit ==
    [emote_mode |-> FALSE,
     emote_cooldown |-> emote_cooldown,
     last_emote_time |-> 0,
     last_two_hand_check_time |-> 0,
     two_hand_check_interval |-> two_hand_check_interval,
     training_mode |-> FALSE]

\* pyautogui.press: it changes nothing the model keeps of the device
Press(m, key, ok) ==
    LET m1 == Issued(m, key, ok)
    IN  IF ok THEN m1 ELSE [m1 EXCEPT !.raised = TRUE]

\* the sleep of 0.1 s between the two presses is shorter than any frame step
trigger_emote(m, emote, faults) ==
    IF emote \in DOMAIN key_map
    THEN LET m1 == Press(m, "press e", "press_e" \notin faults)
         IN  IF m1.raised THEN m1
             ELSE Press(m1, key_map[emote], "press_key" \notin faults)
    ELSE m

\* emote is what the classifier or the rules detect in this frame (an input);
\* emote_detection_history feeds nothing and is left out
process_emote(m, emote, current_time, faults) ==
    IF current_time - m.app.last_emote_time < m.app.emote_cooldown
    THEN m
    ELSE IF emote = None
         THEN m
         ELSE LET m1 == trigger_emote(m, emote, faults)
              IN  IF m1.raised THEN m1
                  ELSE [m1 EXCEPT !.app.last_emote_time = current_time,
                                  !.triggered = emote]

DebounceElapsed_Strict(a, current_time) ==
    current_time - a.last_two_hand_check_time > a.two_hand_check_interval

DebounceElapsed(a, current_time) ==
    current_time - a.last_two_hand_check_time >= a.two_hand_check_interval

EnterEmoteMode_NoCleanup(m, faults) ==
    [m EXCEPT !.app.emote_mode = TRUE, !.entered = TRUE]

\* emote_mode = True; controller.cleanup()
EnterEmoteMode(m, faults) ==
    cleanup([m EXCEPT !.app.emote_mode = TRUE, !.entered = TRUE], faults)

FewerThanTwoHands_KeepTimer(a) == a

FewerThanTwoHands(a) == [a EXCEPT !.last_two_hand_check_time = 0]

\* the mode switch of run, taken in mouse mode only
two_hand_check(m, num_hands, current_time, faults) ==
    IF num_hands >= 2
    THEN IF m.app.last_two_hand_check_time = 0
         THEN [m EXCEPT !.app.last_two_hand_check_time = current_time]
         ELSE IF DebounceElapsed(m.app, current_time)
              THEN [EnterEmoteMode(m, faults) EXCEPT
                       !.app.last_two_hand_check_time = 0]
              ELSE m
    ELSE [m EXCEPT !.app = FewerThanTwoHands(@)]

AfterTrigger_StayInEmoteMode(a) == a

\* return to mouse mode after an emote
AfterTrigger(a) == [a EXCEPT !.emote_mode = FALSE]

LostSecondHand_StayInEmoteMode(a) == a

\* lost the second hand: return to mouse mode
LostSecondHand(a) == [a EXCEPT !.emote_mode = FALSE]

\* the body of the loop of run up to the key handling
ClashStep(m0, num_hands, gesture, emote, current_time, faults) ==
    LET m1 == IF ~m0.app.emote_mode
              THEN two_hand_check(m0, num_hands, current_time, faults)
              ELSE m0
    IN  IF m1.app.emote_mode
        THEN IF num_hands >= 2
             THEN IF ~m1.app.training_mode
                  THEN LET m2 == process_emote(m1, emote, current_time, faults)
                       IN  IF m2.triggered # None
                           THEN [m2 EXCEPT !.app = AfterTrigger(@)]
                           ELSE m2
                  ELSE m1
             ELSE [m1 EXCEPT !.app = LostSecondHand(@)]
        ELSE IF num_hands = 1
             THEN update(m1, WristX, WristY, gesture, current_time, faults)
             ELSE m1

\* what the observer keeps of the current uninterrupted stretch of frames
\* with two hands: its first frame, the switches to emote mode and the
\* triggers in it; `before` is the first frame of the last stretch that
\* ended without a switch, `presses` the drags started in the session.
\* Of the current stay in emote mode it keeps the start of the debounce
\* window that led to it (window), the frame of the switch (entered_at) and
\* the triggers in it (stay_fires), up to the frame that ends the stay; on a
\* frame that triggers, prev_fire is the time of the trigger before it.
StretchInit ==
    [since |-> 0, entries |-> 0, fires |-> 0, before |-> 0, presses |-> 0,
     window |-> 0, entered_at |-> 0, stay_fires |-> 0, prev_fire |-> 0]

ObserveStretch(m, num_hands, t) ==
    LET fired == IF m.triggered # None THEN 1 ELSE 0
        in_stay == m.app.emote_mode \/ m.triggered # None
    IN  [since |-> IF num_hands < 2 THEN 0
                   ELSE IF stretch.since = 0 THEN t ELSE stretch.since,
         entries |-> IF num_hands < 2 THEN 0
                     ELSE stretch.entries + (IF m.entered THEN 1 ELSE 0),
         fires |-> IF num_hands < 2 THEN 0 ELSE stretch.fires + fired,
         before |-> IF num_hands < 2 /\ stretch.since # 0 /\ stretch.entries = 0
                    THEN stretch.since ELSE stretch.before,
         presses |-> stretch.presses + (IF m.printed = "Drag started!" THEN 1 ELSE 0),
         window |-> IF m.entered THEN app.last_two_hand_check_time
                    ELSE IF in_stay THEN stretch.window ELSE 0,
         entered_at |-> IF m.entered THEN t
                        ELSE IF in_stay THEN stretch.entered_at ELSE 0,
         stay_fires |-> IF m.entered THEN fired
                        ELSE IF in_stay THEN stretch.stay_fires + fired ELSE 0,
         prev_fire |-> IF m.triggered # None THEN app.last_emote_time ELSE 0]

\* one iteration of the loop of run with a frame from the camera.  The keys
\* s, c, 1, 2, 3 and space change the classifier and the training labels
\* only, which reach the loop through the detected emote.
ClashFrame ==
    /\ session = "clash"
    /\ phase = "running"
    /\ \E dt \in ClashDt, num_hands \in 0..2, key \in {"none", "q", "t"} :
       \E faults \in ClashFaults(num_hands),
          gesture \in IF num_hands = 1 THEN Gestures ELSE {"open"},
          emote \in IF num_hands >= 2 THEN ClashEmotes \cup {None} ELSE {None} :
         /\ now + dt <= Epoch + MaxClashTime
         /\ gesture = "closed" => stretch.presses < MaxClashPresses
         /\ \E m \in {ClashStep([Machine(controller, device) EXCEPT !.app = app],
                               num_hands, gesture, emote, now + dt, faults)} :
            LET stops == m.raised \/ key = "q"
            IN  /\ now' = now + dt
                /\ controller' = m.self
                /\ device' = m.dev
                /\ app' = IF ~m.raised /\ key = "t"
                          THEN [m.app EXCEPT !.training_mode = ~@]
                          ELSE m.app
                /\ frame' = FrameOf("frame", m, num_hands)
                /\ stretch' = ObserveStretch(m, num_hands, now + dt)
                /\ phase' = IF stops THEN "stopping" ELSE "running"
    /\ seen' = Fold
    /\ UNCHANGED <<session, probe, smootherVars>>

\* the loop of either app ends at its head: no frame from the camera, or
\* KeyboardInterrupt
LoopEnds ==
    /\ session \in {"clash", "handmouse"}
    /\ phase = "running"
    /\ phase' = "stopping"
    /\ frame' = IdleFrame
    /\ seen' = Fold
    /\ UNCHANGED <<session, probe, now, controller, device, smootherVars, appVars>>

InitClash ==
    /\ session = "clash"
    /\ now = Epoch
    /\ NoSmoother
    /\ controller = ControllerInit
    /\ device = DeviceInit
    /\ phase = "running"
    /\ frame = IdleFrame
    /\ seen = SeenInit
    /\ app = ClashAppInit
    /\ stretch = StretchInit

NextClash == ClashFrame \/ LoopEnds \/ Teardown

SpecClash == InitClash /\ [][NextClash]_vars

----------------------------------------------------------------------------
(* HandMouseEmoteApp of main_clash_emotes.py *)

\* length of the modelled session of HandMouseEmoteApp, in ticks
MaxHandMouseTime == 30

\* time between two frames of HandMouseEmoteApp, in ticks
HandMouseDt == {5, 10}

\* length of the window of GestureRecognizer (a constructor argument; the
\* configurations pass 3, 5 or 7)
gesture_smoothing_frames == 3

\* the emote detect_emote reports in a frame of HandMouseEmoteApp
HandMouseEmotes == {"GOBLIN_CRYING"}

GestureRecognizerInit == [gesture_history |-> <<>>, previous_gesture |-> "open"]

HandMouseAppInit ==
    [mode |-> "mouse",
     last_emote_triggered |-> None,
     last_emote_time |-> 0,
     running |-> TRUE,
     gesture_recognizer |-> GestureRecognizerInit]

\* current_gesture is what detect_gesture returns for the frame (an input:
\* closed iff no finger is extended)
get_smoothed_gesture(self, current_gesture) ==
    LET h == DequeAppend(self.gesture_history, current_gesture, gesture_smoothing_frames)
        smoothed_gesture ==
            IF Len(h) < gesture_smoothing_frames THEN current_gesture
            ELSE IF CountOf(h, "closed") > CountOf(h, "open") THEN "closed" ELSE "open"
    IN  [self |-> [gesture_history |-> h, previous_gesture |-> smoothed_gesture],
         gesture |-> smoothed_gesture]

handle_emote_trigger(a, emote, current_time) ==
    [a EXCEPT !.last_emote_triggered = emote, !.last_emote_time = current_time]

\* call sites that raise in one frame of HandMouseEmoteApp with one hand:
\* those of update, or the number key press of detect_gesture (the finger
\* counts that decide whether it presses are not modelled: a press that
\* raises is an input of the frame)
HandMouseFaults == UpdateFaults \cup {{"detect_gesture_press"}}

\* the mouse branch of process_frame.  An exception of detect_gesture leaves
\* process_frame (escaped); one of update is caught and printed (raised).
MouseBranch(m, current_gesture, current_time, faults) ==
    IF "detect_gesture_press" \in faults
    THEN [m EXCEPT !.escaped = TRUE]
    ELSE LET g == get_smoothed_gesture(m.app.gesture_recognizer, current_gesture)
         IN  update([m EXCEPT !.app.gesture_recognizer = g.self],
                    WristX, WristY, g.gesture, current_time, faults)

MouseControlFrame_AnyEmote(num_hands, emote_result) == num_hands = 1

MouseControlFrame_AnyHands(num_hands, emote_result) == emote_result.emote = None

\* mouse control only with a single hand and no emote detected
MouseControlFrame(num_hands, emote_result) ==
    num_hands = 1 /\ emote_result.emote = None

process_frame(m0, r, num_hands, current_gesture, current_time, faults) ==
    LET m1 == IF r.result.triggered
              THEN [m0 EXCEPT
                       !.app = handle_emote_trigger(@, r.result.emote, current_time),
                       !.triggered = r.result.emote]
              ELSE m0
    IN  IF MouseControlFrame(num_hands, r.result)
        THEN MouseBranch([m1 EXCEPT !.app.mode = "mouse"],
                         current_gesture, current_time, faults)
        ELSE IF r.result.emote # None
             THEN [m1 EXCEPT !.app.mode = "emote"]
             ELSE [m1 EXCEPT !.app.mode = "idle"]

\* one iteration of the loop of run with a frame from the camera:
\* process_frame, then the key
HandMouseFrame ==
    /\ session = "handmouse"
    /\ phase = "running"
    /\ \E dt \in HandMouseDt, num_hands \in 0..2, key \in {"none", "q"} :
       \E emote \in IF num_hands >= 1 THEN HandMouseEmotes \cup {None} ELSE {None},
          current_gesture \in IF num_hands = 1 THEN Gestures ELSE {"open"},
          faults \in IF num_hands = 1 THEN HandMouseFaults ELSE {{}} :
         /\ now + dt <= Epoch + MaxHandMouseTime
         /\ \E r \in {IF num_hands >= 1
                     THEN get_smoothed_emote(recognizer, emote, now + dt)
                     ELSE [self |-> recognizer, smoothed |-> FALSE, result |-> NoResult]} :
            \E m \in {process_frame([Machine(controller, device) EXCEPT !.app = app],
                                    r, num_hands, current_gesture, now + dt, faults)} :
                /\ now' = now + dt
                /\ recognizer' = r.self
                /\ result' = r.result
                /\ lastFire' = ObserveFire(now)
                /\ run' = ObserveRun(r.smoothed, r.result, now + dt)
                /\ controller' = m.self
                /\ device' = m.dev
                /\ app' = m.app
                /\ frame' = FrameOf("frame", m, num_hands)
                /\ phase' = IF m.escaped \/ key = "q" THEN "stopping" ELSE "running"
    /\ seen' = Fold
    /\ UNCHANGED <<session, probe, matcher, stretch>>

InitHandMouse ==
    /\ session = "handmouse"
    /\ now = Epoch
    /\ recognizer = RecognizerInit
    /\ matcher = None
    /\ result = NoResult
    /\ lastFire = [e \in Emotes |-> 0]
    /\ run = [label |-> None, since |-> 0, fires |-> 0]
    /\ controller = ControllerInit
    /\ device = DeviceInit
    /\ phase = "running"
    /\ frame = IdleFrame
    /\ seen = SeenInit
    /\ app = HandMouseAppInit
    /\ stretch = None
    /\ probe = None

NextHandMouse == HandMouseFrame \/ LoopEnds \/ Teardown

SpecHandMouse == InitHandMouse /\ [][NextHandMouse]_vars

\* both apps
NextApps == ClashFrame \/ HandMouseFrame \/ LoopEnds \/ Teardown

SpecApps == (InitClash \/ InitHandMouse) /\ [][NextApps]_vars

----------------------------------------------------------------------------
(* Classes and functions exercised on their own *)

\* no program runs: only `probe` is in use
NoProgram ==
    /\ now = Epoch
    /\ recognizer = None
    /\ matcher = None
    /\ result = None
    /\ lastFire = None
    /\ run = None
    /\ controller = None
    /\ device = None
    /\ phase = "running"
    /\ frame = None
    /\ seen = None
    /\ app = None
    /\ stretch = None

ProgramVars == <<now, smootherVars, mouseVars, appVars>>

\* MouseController.map_to_screen under the parameters a caller may pass:
\* Config's and the constructor's defaults, an empty zone, an inverted zone,
\* and margins up to more than half the screen. The hand positions are those
\* where the float computation of the source and the exact one agree.
Screens == {<<1000, 800>>, <<40, 30>>}
Zones == {<<10, 90>>, <<15, 85>>, <<50, 50>>, <<90, 10>>}
Margins == {0, 50, 600}
ProbeHands == {-10, 5, 10, 50, 85, 90, 120}

InitMapping ==
    /\ session = "mapping"
    /\ NoProgram
    /\ \E screen \in Screens, zone \in Zones, margin \in Margins :
           probe = [self |-> MouseControllerNew(screen, zone, margin),
                    called |-> FALSE, hand |-> <<0, 0>>,
                    out |-> [raised |-> None, point |-> <<0, 0>>]]

MapToScreen ==
    /\ session = "mapping"
    /\ \E hand_x \in ProbeHands, hand_y \in ProbeHands :
           probe' = [probe EXCEPT !.called = TRUE, !.hand = <<hand_x, hand_y>>,
                                  !.out = map_to_screen_of(probe.self, hand_x, hand_y)]
    /\ UNCHANGED <<session, ProgramVars>>

NextMapping == MapToScreen

SpecMapping == InitMapping /\ [][NextMapping]_vars

\* The three emote dispatchers. Each call reads the clock once on entry
\* (current_time); the sleeps between the injected inputs move the clock on.
\* An input that pyautogui refuses raises an exception and injects nothing;
\* `fault` is the position of the input that raises, 0 for none.
MaxDispatchTime == 50
DispatchDt == {5, 20, 30, 40}
Faults == 0 .. 3
EmoteNames == {"laughing", "unknown"}

\* EmoteClicker: cooldown 1.5 s, key_delay 0.05 s
EmoteClicker_cooldown == 30
key_delay == 1
emote_button_key == "e"
emote_key_map == [laughing |-> "1"]

\* EmoteController: cooldown 1.0 s
EmoteController_cooldown == 20
emote_coords == [laughing |-> <<3, 4>>]

\* ClashRoyaleEmoteController: emote_cooldown 2.0 s, sleeps of 0.15 s and 0.1 s
ClashRoyale_emote_cooldown == 40
menu_delay == 3
selection_delay == 2

DispatcherInit == [last_emote_time |-> 0]

\* what one call did: the value it returned, the exception that left it, the
\* inputs it handed to pyautogui with the time of each and whether it went
\* through, and the clock when the call ended
Outcome(self, returned, raised, inputs, done) ==
    [self |-> self, returned |-> returned, raised |-> raised, inputs |-> inputs,
     done |-> done]

Input(cmd, at, ok) == [cmd |-> cmd, at |-> at, ok |-> ok]

\* the except branch of EmoteClicker.trigger_emote: print and return False
AfterFailure_Stamped(self, t) == [self EXCEPT !.last_emote_time = t]

AfterFailure(self, t) == self

\* EmoteClicker.can_trigger_emote
can_trigger_emote(self, t) == t - self.last_emote_time >= EmoteClicker_cooldown

EmoteClicker_trigger_emote(self, emote_name, t, fault) ==
    IF ~can_trigger_emote(self, t)
    THEN Outcome(self, "False", None, <<>>, t)
    ELSE IF emote_name \notin DOMAIN emote_key_map
    THEN Outcome(self, "False", None, <<>>, t)
    ELSE IF fault = 1
    THEN Outcome(AfterFailure(self, t), "False", None,
                 <<Input(emote_button_key, t, FALSE)>>, t)
    ELSE IF fault = 2
    THEN Outcome(AfterFailure(self, t + key_delay), "False", None,
                 <<Input(emote_button_key, t, TRUE),
                   Input(emote_key_map[emote_name], t + key_delay, FALSE)>>,
                 t + key_delay)
    ELSE Outcome([self EXCEPT !.last_emote_time = t + key_delay], "True", None,
                 <<Input(emote_button_key, t, TRUE),
                   Input(emote_key_map[emote_name], t + key_delay, TRUE)>>,
                 t + key_delay)

\* EmoteController.click_emote: no handler, an exception leaves the call
EmoteController_click_emote(self, emote_name, t, fault) ==
    IF t - self.last_emote_time < EmoteController_cooldown
    THEN Outcome(self, None, None, <<>>, t)
    ELSE IF emote_name \notin DOMAIN emote_coords
    THEN Outcome(self, None, None, <<>>, t)
    ELSE IF fault = 1
    THEN Outcome(self, None, "FailSafeException", <<Input("click", t, FALSE)>>, t)
    ELSE IF fault = 2
    THEN Outcome(self, None, "FailSafeException",
                 <<Input("click", t, TRUE), Input("moveTo", t, FALSE)>>, t)
    ELSE Outcome([self EXCEPT !.last_emote_time = t], None, None,
                 <<Input("click", t, TRUE), Input("moveTo", t, TRUE)>>, t)

\* Config.EMOTE_POSITIONS as the configuration file has it: the attribute is
\* absent from Config as shipped (the lookup raises AttributeError inside the
\* try), and calibrate_positions tells the user to add it
EmotePositions == {"AttributeError", "calibrated"}

\* ClashRoyaleEmoteController.click_emote
ClashRoyale_click_emote(self, positions, emote_name, t, fault) ==
    IF t - self.last_emote_time < ClashRoyale_emote_cooldown
    THEN Outcome(self, None, None, <<>>, t)
    ELSE IF positions = "AttributeError"
    THEN Outcome(self, None, None, <<>>, t)
    ELSE IF emote_name \notin DOMAIN emote_coords
    THEN Outcome(self, None, None, <<>>, t)
    ELSE IF fault = 1
    THEN Outcome(self, None, None, <<Input("click", t, FALSE)>>, t)
    ELSE IF fault = 2
    THEN Outcome(self, None, None,
                 <<Input("click", t, TRUE), Input("click", t + menu_delay, FALSE)>>,
                 t + menu_delay)
    ELSE IF fault = 3
    THEN Outcome(self, None, None,
                 <<Input("click", t, TRUE), Input("click", t + menu_delay, TRUE),
                   Input("click", t + menu_delay + selection_delay, FALSE)>>,
                 t + menu_delay + selection_delay)
    ELSE Outcome([self EXCEPT !.last_emote_time = t], None, None,
                 <<Input("click", t, TRUE), Input("click", t + menu_delay, TRUE),
                   Input("click", t + menu_delay + selection_delay, TRUE)>>,
                 t + menu_delay + selection_delay)

\* did the call inject any input
Injected(out) == \E i \in DOMAIN out.inputs : out.inputs[i].ok

\* a session of one dispatcher: `at` is the clock on entry of the latest call,
\* `before` the last_emote_time it found, `prev` the entry time of the latest
\* earlier call that injected input (0 when there is none)
InitDispatch ==
    /\ session \in {"EmoteClicker", "EmoteController", "ClashRoyaleEmoteController"}
    /\ NoProgram
    /\ probe = [self |-> DispatcherInit, called |-> FALSE, at |-> 0, before |-> 0,
                prev |-> 0, emote_name |-> None,
                out |-> Outcome(DispatcherInit, None, None, <<>>, Epoch)]

Dispatched(dt, emote_name, out) ==
    /\ now + dt <= Epoch + MaxDispatchTime
    /\ now' = out.done
    /\ probe' = [self |-> out.self, called |-> TRUE, at |-> now + dt,
                 before |-> probe.self.last_emote_time,
                 prev |-> IF probe.called /\ Injected(probe.out) THEN probe.at
                          ELSE probe.prev,
                 emote_name |-> emote_name, out |-> out]
    /\ UNCHANGED <<session, smootherVars, mouseVars, appVars>>

TriggerEmote ==
    /\ session = "EmoteClicker"
    /\ \E dt \in DispatchDt, emote_name \in EmoteNames, fault \in Faults :
           Dispatched(dt, emote_name,
                      EmoteClicker_trigger_emote(probe.self, emote_name, now + dt, fault))

ClickEmote ==
    /\ session = "EmoteController"
    /\ \E dt \in DispatchDt, emote_name \in EmoteNames, fault \in Faults :
           Dispatched(dt, emote_name,
                      EmoteController_click_emote(probe.self, emote_name, now + dt, fault))

ClashRoyaleClickEmote ==
    /\ session = "ClashRoyaleEmoteController"
    /\ \E dt \in DispatchDt, emote_name \in EmoteNames, fault \in Faults,
          positions \in EmotePositions :
           Dispatched(dt, emote_name,
                      ClashRoyale_click_emote(probe.self, positions, emote_name,
                                              now + dt, fault))

NextDispatch == TriggerEmote \/ ClickEmote \/ ClashRoyaleClickEmote

SpecDispatch == InitDispatch /\ [][NextDispatch]_vars

\* The geometric hand classifier. A hand is its 21 landmarks; the model keeps
\* the y coordinate (hundredths of the frame, growing downwards) of the tip
\* and the PIP joint of the four fingers the classifier reads.
FingerPairs == {<<8, 6>>, <<12, 10>>, <<16, 14>>, <<20, 18>>}
LandmarkCount == 21
PipY == 50
TipYs == {45, 48, 49, 55}
curl_margin == 2

Hands ==
    {[n |-> LandmarkCount,
      y |-> [i \in {6, 8, 10, 12, 14, 16, 18, 20} |->
                IF i = 8 THEN t1 ELSE IF i = 12 THEN t2 ELSE IF i = 16 THEN t3
                ELSE IF i = 20 THEN t4 ELSE PipY]] :
        t1 \in TipYs, t2 \in TipYs, t3 \in TipYs, t4 \in TipYs}

\* the test both classifiers apply to one finger
Curled_Inclusive(landmarks, pair) ==
    landmarks.y[pair[1]] >= landmarks.y[pair[2]] - curl_margin

Curled(landmarks, pair) ==
    landmarks.y[pair[1]] > landmarks.y[pair[2]] - curl_margin

closed_count(landmarks) == Cardinality({pair \in FingerPairs : Curled(landmarks, pair)})

\* ClashEmoteApp.is_hand_closed
ClashEmoteApp_is_hand_closed(landmarks) == closed_count(landmarks) >= 3

\* ClashEmoteRecognizer.is_hand_closed
ClashEmoteRecognizer_is_hand_closed(landmarks) ==
    IF landmarks.n < 21 THEN FALSE ELSE closed_count(landmarks) >= 3

InitHands ==
    /\ session = "hands"
    /\ NoProgram
    /\ probe = [called |-> None, landmarks |-> CHOOSE h \in Hands : TRUE, out |-> FALSE]

AppIsHandClosed ==
    /\ session = "hands"
    /\ \E landmarks \in Hands :
           probe' = [called |-> "ClashEmoteApp", landmarks |-> landmarks,
                     out |-> ClashEmoteApp_is_hand_closed(landmarks)]
    /\ UNCHANGED <<session, ProgramVars>>

RecognizerIsHandClosed ==
    /\ session = "hands"
    /\ \E landmarks \in Hands :
           probe' = [called |-> "ClashEmoteRecognizer", landmarks |-> landmarks,
                     out |-> ClashEmoteRecognizer_is_hand_closed(landmarks)]
    /\ UNCHANGED <<session, ProgramVars>>

NextHands == AppIsHandClosed \/ RecognizerIsHandClosed

SpecHands == InitHands /\ [][NextHands]_vars

\* The fusion of the learned and the rule-based detection in
\* ClashEmoteApp.process_emote. The classifier's training data is the list of
\* the labels of its samples; which samples lie nearest to the frame, whether
\* their mean distance exceeds 0.5, and what the rules see in the frame are
\* inputs of each call; the session keeps, of the latest call, the number of
\* neighbours, their votes per label and whether they were far. Confidences
\* are in units of 1/120, which holds every
\* quotient count / k for k <= 5 and its half.
MaxSamples == 6
TrainingLabels == {"GOBLIN", "WIZARD"}
RuleResults == {None, "GOBLIN", "WIZARD", "PRINCESS"}
ConfidenceUnit == 120
knn_k == 5
accept_confidence == 72
rule_confidence == 84

SeqsUpTo(S, n) == UNION {[1 .. k -> S] : k \in 0 .. n}

NoPrediction == [label |-> None, confidence |-> 0]

\* np.unique sorts the labels and np.argmax takes the first maximum
Votes_knn(labels, nearest, label) ==
    Cardinality({i \in nearest : labels[i] = label})

\* predict as it would be without `confidence *= 0.5`
predict_Unhalved(self, num_hands, nearest, far) ==
    IF self.training_data = <<>> THEN NoPrediction
    ELSE IF num_hands < 2 THEN NoPrediction
    ELSE LET labels == self.training_data
             k == Cardinality(nearest)
             g == Votes_knn(labels, nearest, "GOBLIN")
             w == Votes_knn(labels, nearest, "WIZARD")
         IN  [label |-> IF g >= w THEN "GOBLIN" ELSE "WIZARD",
              confidence |-> (Max(g, w) * ConfidenceUnit) \div k]

\* GestureClassifier.predict; `nearest` are the indices of the k samples
\* nearest to the frame, `far` whether avg_distance > 0.5
predict(self, num_hands, nearest, far) ==
    IF self.training_data = <<>> THEN NoPrediction
    ELSE IF num_hands < 2 THEN NoPrediction
    ELSE LET labels == self.training_data
             k == Cardinality(nearest)
             g == Votes_knn(labels, nearest, "GOBLIN")
             w == Votes_knn(labels, nearest, "WIZARD")
             best_label == IF g >= w THEN "GOBLIN" ELSE "WIZARD"
             confidence == (Max(g, w) * ConfidenceUnit) \div k
         IN  [label |-> best_label,
              confidence |-> IF far THEN confidence \div 2 ELSE confidence]

\* `if confidence < 0.6: emote = None`
Accepted_Strict(confidence) == confidence > accept_confidence

Accepted(confidence) == ~(confidence < accept_confidence)

\* lines 269-281 of process_emote: the emote it goes on with, its confidence,
\* the path that produced it and whether predict was called
Fusion(self, num_hands, nearest, far, rule) ==
    LET learned == self.training_data # <<>>
        prediction == IF learned THEN predict(self, num_hands, nearest, far)
                      ELSE NoPrediction
        emote1 == IF learned /\ Accepted(prediction.confidence)
                  THEN prediction.label ELSE None
        rules == IF num_hands < 2 THEN None ELSE rule
    IN  [predict_called |-> learned,
         prediction |-> prediction,
         emote |-> IF emote1 # None THEN emote1 ELSE rules,
         confidence |-> IF emote1 # None THEN prediction.confidence
                        ELSE IF rules # None THEN rule_confidence
                        ELSE prediction.confidence,
         path |-> IF emote1 # None THEN "learned"
                  ELSE IF rules # None THEN "rules" ELSE None,
         raised |-> None]

\* GestureClassifier.__init__ with the model file found on disk
InitFusion ==
    /\ session = "fusion"
    /\ NoProgram
    /\ \E training_data \in SeqsUpTo(TrainingLabels, MaxSamples) :
           probe = [self |-> [training_data |-> training_data], called |-> FALSE,
                    num_hands |-> 0, rule |-> None, k |-> 0,
                    votes |-> [l \in TrainingLabels |-> 0], far |-> FALSE,
                    out |-> Fusion([training_data |-> <<>>], 0, {}, FALSE, None)]

ProcessEmoteFusion ==
    /\ session = "fusion"
    /\ \E nearest \in {n \in SUBSET DOMAIN probe.self.training_data :
                           Cardinality(n) = Min(knn_k, Len(probe.self.training_data))},
          num_hands \in {1, 2}, far \in BOOLEAN, rule \in RuleResults :
           /\ probe' = [probe EXCEPT
                            !.called = TRUE, !.num_hands = num_hands, !.rule = rule,
                            !.k = Cardinality(nearest),
                            !.votes = [l \in TrainingLabels |->
                                          Votes_knn(probe.self.training_data, nearest, l)],
                            !.far = far,
                            !.out = Fusion(probe.self, num_hands, nearest, far, rule)]
    /\ UNCHANGED <<session, ProgramVars>>

NextFusion == ProcessEmoteFusion

SpecFusion == InitFusion /\ [][NextFusion]_vars

\* Loading the trained model. The file at model_path is absent, present but
\* not loadable (pickle.load raises), or a trained model; after construction
\* the component classifies frames, each of which shows some emote or none.
ModelFiles == {"absent", "unloadable", "trained"}
Components == {"GestureClassifier", "EmoteClassifier", "UltimateEmoteMatcher"}
MaxLoadFrames == 12
FrameEmotes == {None, "GOBLIN", "WIZARD"}

Loaded(raised, trained) == [raised |-> raised, trained |-> trained]

\* load_model of GestureClassifier and of EmoteClassifier: open and
\* pickle.load, with no handler
load_model(file) ==
    IF file = "unloadable" THEN Loaded("UnpicklingError", FALSE)
    ELSE Loaded(None, TRUE)

\* GestureClassifier.__init__: load_model loads only if the file exists
GestureClassifier_init(file) ==
    IF file = "absent" THEN Loaded(None, FALSE) ELSE load_model(file)

\* EmoteClassifier.__init__
EmoteClassifier_init(file) ==
    IF file = "absent" THEN Loaded(None, FALSE) ELSE load_model(file)

\* UltimateEmoteMatcher.__init__: raises unless the classifier is trained
UltimateEmoteMatcher_init(file) ==
    LET classifier == EmoteClassifier_init(file)
    IN  IF classifier.raised # None THEN classifier
        ELSE IF ~classifier.trained THEN Loaded("ValueError", FALSE)
        ELSE classifier

\* one frame: ClashEmoteApp.process_emote with its GestureClassifier falls
\* back to the rules; EmoteClassifier.predict raises without a model
Classify(component, trained, emote) ==
    IF component = "EmoteClassifier" /\ ~trained
    THEN [raised |-> "ValueError", emote |-> None]
    ELSE [raised |-> None, emote |-> emote]

InitLoading ==
    /\ session = "loading"
    /\ NoProgram
    /\ \E component \in Components, file \in ModelFiles :
           probe = [component |-> component, file |-> file, phase |-> "new",
                    raised |-> None, trained |-> FALSE, frames |-> 0, emote |-> None]

Construct ==
    /\ session = "loading"
    /\ probe.phase = "new"
    /\ \E c \in {IF probe.component = "GestureClassifier"
                  THEN GestureClassifier_init(probe.file)
                  ELSE IF probe.component = "EmoteClassifier"
                  THEN EmoteClassifier_init(probe.file)
                  ELSE UltimateEmoteMatcher_init(probe.file)} :
           probe' = [probe EXCEPT !.phase = IF c.raised # None THEN "failed" ELSE "ready",
                                  !.raised = c.raised, !.trained = c.trained]
    /\ UNCHANGED <<session, ProgramVars>>

ClassifyFrame ==
    /\ session = "loading"
    /\ probe.phase = "ready"
    /\ probe.frames < MaxLoadFrames
    /\ \E emote \in FrameEmotes :
         \E r \in {Classify(probe.component, probe.trained, emote)} :
           probe' = [probe EXCEPT !.phase = IF r.raised # None THEN "failed" ELSE "ready",
                                  !.raised = r.raised, !.emote = r.emote,
                                  !.frames = @ + 1]
    /\ UNCHANGED <<session, ProgramVars>>

NextLoading == Construct \/ ClassifyFrame

SpecLoading == InitLoading /\ [][NextLoading]_vars

\* GestureRecognizer. A hand is its 21 landmarks, of which the model keeps
\* what detect_gesture reads: the y coordinate of tip and PIP joint of the
\* four fingers and the x coordinate of tip (4) and joint (2) of the thumb, in
\* hundredths of the frame; a hand with fewer than 21 landmarks is NoLandmarks.
\* The hands probed extend their fingers from the index on, with or without
\* the thumb, which gives every count from 0 to 5.
\* Times are in ticks: stable_threshold 0.5 s, transition_window 0.3 s.
MaxGestureTime == 30
GestureDt == {2, 6, 10}
stable_threshold == 10
transition_window == 6
finger_margin == 2
thumb_margin == 1
JointAt == 50
ThumbTipXs == {40, 60}

NoLandmarks == [n |-> 0, y |-> [i \in {6, 8, 10, 12, 14, 16, 18, 20} |-> 0],
                x |-> [i \in {2, 4} |-> 0]]

GestureHands ==
    {[n |-> LandmarkCount,
      y |-> [i \in {6, 8, 10, 12, 14, 16, 18, 20} |->
                IF i \in {8, 12, 16, 20}
                THEN (IF i \div 4 - 1 <= fingers THEN 45 ELSE 55)
                ELSE JointAt],
      x |-> [i \in {2, 4} |-> IF i = 4 THEN t0 ELSE JointAt]] :
        t0 \in ThumbTipXs, fingers \in 0 .. 4}

is_finger_extended(landmarks, finger_tip_idx, finger_pip_idx) ==
    landmarks.y[finger_tip_idx] < landmarks.y[finger_pip_idx] - finger_margin

is_thumb_extended(landmarks, finger_tip_idx, finger_pip_idx) ==
    landmarks.x[finger_tip_idx] > landmarks.x[finger_pip_idx] - thumb_margin

\* sum(fingers_extended): the four fingers and the thumb
total_fingers_extended(landmarks) ==
    Cardinality({pair \in FingerPairs :
                    is_finger_extended(landmarks, pair[1], pair[2])})
        + (IF is_thumb_extended(landmarks, 4, 2) THEN 1 ELSE 0)

\* `open_gesture = total_fingers_extended >= 1`
open_threshold == 1

GestureRecognizerNew(t) ==
    [gesture_history |-> <<>>,
     previous_gesture |-> "open",
     previous_finger_count |-> 0,
     stable_finger_count |-> 0,
     in_transition |-> FALSE,
     current_finger_count |-> 0,
     last_finger_count_change_time |-> t,
     time_at_current_count |-> 0]

\* what one call of detect_gesture did: the gesture returned, the number
\* keys handed to pyautogui.press with the path that pressed them, and
\* whether the press raised (the exception leaves detect_gesture at once)
Detected(self, total, gesture, presses, raised) ==
    [self |-> self, total |-> total, gesture |-> gesture, presses |-> presses,
     raised |-> raised]

KeyPress(key, path, ok) == [key |-> key, path |-> path, ok |-> ok]

\* `if self.time_at_current_count >= self.stable_threshold`
StableLongEnough_NoWait(self) == TRUE

StableLongEnough(self) == self.time_at_current_count >= stable_threshold

\* the condition of the quick-close branch, lines 142-146
QuickClose(self, current_time) ==
    LET time_since_change == current_time - self.last_finger_count_change_time
    IN  /\ self.previous_finger_count # 0
        /\ self.previous_finger_count # self.stable_finger_count
        /\ time_since_change < transition_window

\* lines 175-191: the count is stored and the gesture returned
Finish(self, total, presses) ==
    Detected([self EXCEPT !.previous_finger_count = total,
                          !.current_finger_count = total],
             total,
             IF total >= open_threshold THEN "open" ELSE "closed",
             presses, FALSE)

detect_gesture(self, landmarks, current_time, fault) ==
    IF landmarks.n < 21
    THEN Detected(self, -1, self.previous_gesture, <<>>, FALSE)
    ELSE
    LET total == total_fingers_extended(landmarks)
        s1 == IF total # self.previous_finger_count
              THEN [self EXCEPT !.last_finger_count_change_time = current_time,
                                !.time_at_current_count = 0]
              ELSE [self EXCEPT !.time_at_current_count =
                                    current_time - self.last_finger_count_change_time]
    IN  IF total = 0
        THEN IF QuickClose(s1, current_time) /\ s1.stable_finger_count > 0
             THEN IF fault
                  THEN Detected(s1, total, None,
                                <<KeyPress(s1.stable_finger_count, "quick close", FALSE)>>,
                                TRUE)
                  ELSE Finish([s1 EXCEPT !.in_transition = TRUE], total,
                              <<KeyPress(s1.stable_finger_count, "quick close", TRUE)>>)
             ELSE Finish([s1 EXCEPT !.in_transition = TRUE], total, <<>>)
        ELSE IF total >= 1 /\ total <= 4
        THEN IF StableLongEnough(s1)
             THEN IF total # s1.stable_finger_count
                  THEN LET s2 == [s1 EXCEPT !.stable_finger_count = total]
                       IN  IF fault
                           THEN Detected(s2, total, None,
                                         <<KeyPress(total, "stable", FALSE)>>, TRUE)
                           ELSE Finish([s2 EXCEPT !.in_transition = FALSE], total,
                                       <<KeyPress(total, "stable", TRUE)>>)
                  ELSE Finish(s1, total, <<>>)
             ELSE IF s1.in_transition /\ total = s1.stable_finger_count
                  THEN Finish([s1 EXCEPT !.in_transition = FALSE], total, <<>>)
                  ELSE Finish(s1, total, <<>>)
        ELSE Finish(s1, total, <<>>)

\* the observer of the session: `shown` is the current uninterrupted showing
\* of one finger count (the count, the time of its first call, the time of
\* its latest call, the keys pressed for it through the stable path);
\* `before` is the showing as it was when the latest call began, with the
\* stable count of that moment
ShownInit == [count |-> 0, since |-> Epoch, latest |-> Epoch, presses |-> 0]

StablePresses(out, n) ==
    Cardinality({i \in DOMAIN out.presses :
                    out.presses[i].path = "stable" /\ out.presses[i].key = n})

ObserveShown(shown, out, t) ==
    IF out.total = -1 THEN shown
    ELSE IF out.total = shown.count
    THEN [shown EXCEPT !.latest = t, !.presses = @ + StablePresses(out, out.total)]
    ELSE [count |-> out.total, since |-> t, latest |-> t,
          presses |-> StablePresses(out, out.total)]

\* the loop of the test driver of gesture_recognizer.py: a frame with a hand
\* calls get_smoothed_gesture, which calls detect_gesture; an exception of
\* pyautogui.press ends the loop. HandDetector.find_hands gives every hand
\* its 21 landmarks, so no call sees fewer.
InitGestures ==
    /\ session = "gestures"
    /\ NoProgram
    /\ probe = [self |-> GestureRecognizerNew(Epoch), called |-> FALSE, raised |-> FALSE,
                landmarks |-> NoLandmarks,
                out |-> Detected(GestureRecognizerNew(Epoch), -1, "open", <<>>, FALSE),
                shown |-> ShownInit,
                before |-> [count |-> 0, since |-> Epoch, latest |-> Epoch,
                            stable |-> 0]]

GestureFrame ==
    /\ session = "gestures"
    /\ ~probe.raised
    /\ \E dt \in GestureDt, landmarks \in GestureHands, fault \in BOOLEAN :
         /\ now + dt <= Epoch + MaxGestureTime
         /\ \E d \in {detect_gesture(probe.self, landmarks, now + dt, fault)} :
              /\ now' = now + dt
              /\ probe' =
                   [self |-> IF d.raised THEN d.self
                             ELSE LET g == get_smoothed_gesture(d.self, d.gesture)
                                  IN  [d.self EXCEPT
                                          !.gesture_history = g.self.gesture_history,
                                          !.previous_gesture = g.self.previous_gesture],
                    called |-> TRUE,
                    raised |-> d.raised,
                    landmarks |-> landmarks,
                    out |-> d,
                    shown |-> ObserveShown(probe.shown, d, now + dt),
                    before |-> [count |-> probe.shown.count, since |-> probe.shown.since,
                                latest |-> probe.shown.latest,
                                stable |-> probe.self.stable_finger_count]]
    /\ UNCHANGED <<session, smootherVars, mouseVars, appVars>>

NextGestures == GestureFrame

SpecGestures == InitGestures /\ [][NextGestures]_vars

\* EmoteMatcher of the first program (main.py): the table of
\* (expression, gesture) pairs and the history of the emotes looked up.
history_size == 3

emote_map ==
    {<<"laughing", "thumbs_up", "laughing">>,
     <<"laughing", "peace", "goblin_laugh">>,
     <<"laughing", "open_palm", "king_laugh">>,
     <<"crying", "fist", "crying">>,
     <<"crying", "open_palm", "princess_cry">>,
     <<"angry", "fist", "angry">>,
     <<"angry", "pointing", "goblin_angry">>,
     <<"neutral", "thumbs_up", "king_thumbs_up">>,
     <<"laughing", "thumbs_down", "thumbs_up">>,
     <<"surprised", "open_palm", "wow">>,
     <<"neutral", "peace", "chicken">>,
     <<"laughing", "waving", "goblin_kiss">>,
     <<"crying", "pointing", "princess_yawn">>,
     <<"neutral", "fist", "thinking">>,
     <<"angry", "open_palm", "screaming">>}

\* what the frame's detectors hand to process_frame: a name or None
FrameExpressions == {"laughing", "crying", "angry", "neutral", "surprised", None}
FrameGestures == {"thumbs_up", "thumbs_down", "peace", "open_palm", "fist",
                  "pointing", "waving", None}

\* self.emote_map.get(key)
emote_map_get(expression, gesture) ==
    IF \E m \in emote_map : m[1] = expression /\ m[2] = gesture
    THEN (CHOOSE m \in emote_map : m[1] = expression /\ m[2] = gesture)[3]
    ELSE None

EmoteMatcherNew == [match_history |-> <<>>]

\* self.match_history.clear() of a match
ClearAfterMatch_Keep(match_history) == match_history

ClearAfterMatch(match_history) == <<>>

\* match_emote: the matcher after the call and the value returned
EmoteMatcher_match_emote(self, expression, gesture) ==
    LET emote == emote_map_get(expression, gesture)
    IN  IF emote # None
        THEN LET appended == Append(self.match_history, emote)
                 history == IF Len(appended) > history_size
                            THEN Tail(appended) ELSE appended
             IN  IF /\ Len(history) >= history_size
                    /\ \A i \in 1 .. Len(history) : history[i] = emote
                 THEN [self |-> [match_history |-> ClearAfterMatch(history)],
                       emote |-> emote, out |-> emote]
                 ELSE [self |-> [match_history |-> history],
                       emote |-> emote, out |-> None]
        ELSE [self |-> self, emote |-> None, out |-> None]

\* The session keeps, besides the matcher, what an observer of the calls
\* knows: the emotes of the latest mapped calls, the number of mapped calls
\* since the latest emote returned (counted up to history_size) and, for the
\* latest call, that number when the call returned and whether it returned
\* an emote after an earlier call had.
InitEmoteMatcher ==
    /\ session = "emotematcher"
    /\ NoProgram
    /\ probe = [self |-> EmoteMatcherNew, called |-> FALSE, emote |-> None,
                out |-> None, mapped |-> <<>>, since |-> 0, had |-> 0,
                returned |-> FALSE, again |-> FALSE]

\* process_frame of main.py: match_emote is called when the frame has both an
\* expression and a gesture
MatchEmoteFrame ==
    /\ session = "emotematcher"
    /\ \E expression \in FrameExpressions, gesture \in FrameGestures :
         /\ expression # None
         /\ gesture # None
         /\ \E m \in {EmoteMatcher_match_emote(probe.self, expression, gesture)} :
              LET mapped == IF m.emote = None THEN probe.mapped
                            ELSE DequeAppend(probe.mapped, m.emote, history_size)
                  had == IF m.emote = None THEN probe.since
                         ELSE Min(probe.since + 1, history_size)
              IN  probe' = [self |-> m.self, called |-> TRUE, emote |-> m.emote,
                            out |-> m.out, mapped |-> mapped,
                            since |-> IF m.out # None THEN 0 ELSE had,
                            had |-> had,
                            returned |-> probe.returned \/ m.out # None,
                            again |-> probe.returned /\ m.out # None]
    /\ UNCHANGED <<session, ProgramVars>>

NextEmoteMatcher == MatchEmoteFrame

SpecEmoteMatcher == InitEmoteMatcher /\ [][NextEmoteMatcher]_vars

\* MouseController driven by any caller: update, handle_click and cleanup in
\* any order, each with the commands that fail, up to the first command
\* that raises (also one that cleanup swallows): `phase` is "running" until
\* then. Every call reads a later time.time(). `seen` is the
\* observer's fold of the frames before the latest: the last button command
\* issued and the number of presses (counted up to 2).
MaxControllerTime == 23
ControllerDt == {4, 7}

LastButton(cmds, last) ==
    LET buttons == {i \in DOMAIN cmds : cmds[i].cmd \in {"mouseDown", "mouseUp"}}
    IN  IF buttons = {} THEN last
        ELSE cmds[CHOOSE i \in buttons : \A j \in buttons : j <= i].cmd

AnyFailed(cmds) == \E i \in DOMAIN cmds : ~cmds[i].ok

ButtonFold ==
    [last |-> LastButton(frame.cmds, seen.last),
     presses |-> Min(seen.presses + CountCmd(frame, "mouseDown"), 2)]

InitController ==
    /\ session = "controller"
    /\ now = Epoch
    /\ NoSmoother
    /\ controller = ControllerInit
    /\ device = DeviceInit
    /\ phase = "running"
    /\ frame = IdleFrame
    /\ seen = [last |-> None, presses |-> 0]
    /\ app = None
    /\ stretch = None

Called(op, m, dt) ==
    /\ now' = now + dt
    /\ controller' = m.self
    /\ device' = m.dev
    /\ frame' = FrameOf(op, m, 1)
    /\ phase' = IF m.raised \/ AnyFailed(m.cmds) THEN "raised" ELSE phase
    /\ seen' = ButtonFold
    /\ UNCHANGED <<session, probe, smootherVars, appVars>>

ControllerUpdate ==
    /\ session = "controller"
    /\ phase = "running"
    /\ \E dt \in ControllerDt, hand_x \in HandXs, hand_y \in HandYs,
          gesture \in Gestures, faults \in UpdateFaults :
         /\ now + dt <= Epoch + MaxControllerTime
         /\ \E m \in {update(Machine(controller, device), hand_x, hand_y, gesture,
                             now + dt, faults)} :
                Called("update", m, dt)

ControllerHandleClick ==
    /\ session = "controller"
    /\ phase = "running"
    /\ \E dt \in ControllerDt, gesture \in Gestures, faults \in UpdateFaults :
         /\ now + dt <= Epoch + MaxControllerTime
         /\ \E m \in {handle_click(Machine(controller, device), gesture,
                                   now + dt, faults)} :
                Called("handle_click", m, dt)

ControllerCleanup ==
    /\ session = "controller"
    /\ phase = "running"
    /\ \E dt \in ControllerDt, faults \in SUBSET {"cleanup_mouseUp"} :
         /\ now + dt <= Epoch + MaxControllerTime
         /\ \E m \in {cleanup(Machine(controller, device), faults)} :
                Called("cleanup", m, dt)

NextController == ControllerUpdate \/ ControllerHandleClick \/ ControllerCleanup

SpecController == InitController /\ [][NextController]_vars

----------------------------------------------------------------------------
(* Claims about the smoothers *)

\* C1: two calls of get_smoothed_emote (or of match_emote) that return
\* triggered=True for the same label are at least the cooldown (2.0 s) apart.
\* lastFire holds the triggers before the latest call, result the latest call.
C1_AtMostOnePerCooldown ==
    (result.triggered /\ lastFire[result.emote] # 0)
        => now - lastFire[result.emote] >= cooldown

\* a second trigger for a label that fired before, in the recognizer loop
C1_Witness ==
    /\ session = "recognizer"
    /\ result.triggered
    /\ lastFire[result.emote] # 0

\* C2: get_smoothed_emote returns triggered=True for L only when L has been
\* the smoothed label on every call for at least hold_time (1.0 s).
C2_HoldTimeLowerBound ==
    (session = "recognizer" /\ result.triggered)
        => /\ run.label = result.emote
           /\ now - run.since >= hold_time

\* a trigger of the recognizer after a run of exactly hold_time
C2_Witness ==
    /\ session = "recognizer"
    /\ result.triggered
    /\ now - run.since = hold_time

\* C3: while the smoothed label stays L on every call, get_smoothed_emote
\* returns triggered=True for L at most once, however long L is held.
C3_OncePerRun ==
    session = "recognizer" => run.fires <= 1

\* L fired and is still the smoothed label after the cooldown has run out
C3_Witness ==
    /\ session = "recognizer"
    /\ run.fires = 1
    /\ ~result.triggered
    /\ result.emote = run.label
    /\ now - recognizer.last_trigger_time > cooldown

----------------------------------------------------------------------------
(* Claims about MouseController *)

\* C6: when a pointer command raises inside move_cursor or handle_click while
\* is_dragging is true, the button is released and is_dragging is false
\* before the exception reaches the caller, and no session ends (after
\* cleanup) with the button still pressed.
C6_ReleaseBeforeAbort ==
    session = "mouse" =>
        /\ (frame.op = "update" /\ frame.raised /\ frame.dragging_before)
               => (~controller.is_dragging /\ ~device.button)
        /\ phase = "ended" => ~device.button

\* C9: a drag that handle_click ends is classified as a click iff it lasted
\* less than 0.15 s (3 ticks) and the pointer moved less than 10 px, both
\* strict; the press is as the observer saw it.
C9_ClickDragBoundary ==
    (session = "mouse" /\ frame.printed \in {"Click!", "Drag ended"})
        => (frame.printed = "Click!"
              <=> /\ now - seen.press_time < 3
                  /\ DistanceSq(device.pointer, seen.press_pos) < 100)

\* a release exactly 10 px from the press, 0.1 s after it: a drag
C9_Witness ==
    /\ session = "mouse"
    /\ frame.printed = "Drag ended"
    /\ now - seen.press_time = 2
    /\ DistanceSq(device.pointer, seen.press_pos) = 100

\* C10: handle_click issues a press iff the gesture is closed, the gesture of
\* the previous call was open and more than click_cooldown (0.3 s, 6 ticks)
\* has passed since the last release; the press records the drag start and
\* sets is_dragging.
C10_PressOnEdge ==
    (session = "mouse" /\ frame.gesture # None)
        => /\ HasCmd(frame, "mouseDown")
                 <=> /\ frame.gesture = "closed"
                     /\ seen.gesture = "open"
                     /\ (seen.release = 0 \/ now - seen.release > 6)
           /\ DidCmd(frame, "mouseDown")
                 => /\ controller.is_dragging
                    /\ controller.drag_start_position = device.pointer
                    /\ controller.drag_start_time = now
                    /\ device.button

\* an open-to-closed edge exactly click_cooldown after a release: no press
C10_Witness ==
    /\ session = "mouse"
    /\ frame.gesture = "closed"
    /\ seen.gesture = "open"
    /\ now - seen.release = 6
    /\ ~HasCmd(frame, "mouseDown")

----------------------------------------------------------------------------
(* Claims about the apps *)

C5_TeardownRelease ==
    (session \in {"clash", "handmouse"} /\ phase = "ended")
        => /\ ~controller.is_dragging
           /\ CountCmd(frame, "mouseUp") = (IF frame.dragging_before THEN 1 ELSE 0)
           /\ Len(frame.cmds) = CountCmd(frame, "mouseUp")

\* a teardown of HandMouseEmoteApp that found a drag active
C5_Witness ==
    /\ session = "handmouse"
    /\ phase = "ended"
    /\ frame.op = "cleanup"
    /\ frame.dragging_before

\* C7: a frame of ClashEmoteApp with fewer than 2 hands leaves the pending
\* timer cleared, and a switch to emote mode happens only when the current
\* uninterrupted stretch of 2-hand frames has lasted 0.5 s: time before an
\* interruption does not count.
C7_TimerResetBelowTwoHands ==
    session = "clash" =>
        /\ (frame.op = "frame" /\ frame.num_hands < 2)
               => app.last_two_hand_check_time = 0
        /\ frame.entered
               => /\ stretch.since # 0
                  /\ now - stretch.since >= two_hand_check_interval

\* two hands are back after an interruption, 0.5 s after the first frame of
\* the stretch before it, and the app is still in mouse mode with the timer
\* restarted
C7_Witness ==
    /\ session = "clash"
    /\ frame.op = "frame"
    /\ stretch.before # 0
    /\ stretch.since # 0
    /\ now > stretch.since
    /\ now - stretch.before >= two_hand_check_interval
    /\ stretch.entries = 0
    /\ ~app.emote_mode
    /\ app.last_two_hand_check_time = stretch.since

\* C8 as stated: ClashEmoteApp switches to emote mode not earlier than 0.5 s
\* after the first frame of an uninterrupted 2-hand stretch, and once the
\* stretch has lasted 0.5 s the switch has happened exactly once.
C8_ExactlyOncePerStretch ==
    session = "clash" =>
        /\ frame.entered => now - stretch.since >= two_hand_check_interval
        /\ (stretch.since # 0 /\ now - stretch.since >= two_hand_check_interval)
               => stretch.entries = 1

\* C8 amended: the switch happens not earlier than 0.5 s after the first
\* frame of the stretch, it has happened once the stretch has lasted 0.5 s,
\* and it happens again in the same stretch only after an emote trigger has
\* put the app back into mouse mode (at most one switch more than triggers).
C8_SwitchAfterDebounce ==
    session = "clash" =>
        /\ frame.entered => now - stretch.since >= two_hand_check_interval
        /\ (stretch.since # 0 /\ now - stretch.since >= two_hand_check_interval)
               => stretch.entries >= 1
        /\ stretch.since # 0 => stretch.entries <= stretch.fires + 1

\* the switch on the frame exactly 0.5 s after the first 2-hand frame
C8_Witness ==
    /\ session = "clash"
    /\ frame.entered
    /\ now - stretch.since = two_hand_check_interval
    /\ stretch.entries = 1

\* C11: no frame of ClashEmoteApp.run or of HandMouseEmoteApp.process_frame
\* both invokes MouseController.update and fires an emote trigger.
C11_OneCommandSourcePerFrame ==
    session \in {"clash", "handmouse"}
        => ~(frame.updated /\ frame.triggered # None)

\* a frame of HandMouseEmoteApp with a single hand in which the emote fires
\* and update is left out
C11_Witness ==
    /\ session = "handmouse"
    /\ frame.op = "frame"
    /\ frame.num_hands = 1
    /\ frame.triggered # None
    /\ ~frame.updated

\* C12: the frame of ClashEmoteApp.run in which an emote fires leaves the app
\* in mouse mode, so a stay in emote mode has at most one trigger; and a
\* trigger after an earlier one belongs to a stay that was entered after a
\* debounce window of at least 0.5 s of 2-hand frames begun after the
\* earlier trigger.
C12_OneEmotePerStay ==
    session = "clash" =>
        /\ frame.triggered # None => ~app.emote_mode
        /\ stretch.stay_fires <= 1
        /\ (frame.triggered # None /\ stretch.prev_fire # 0)
               => /\ stretch.window > stretch.prev_fire
                  /\ stretch.entered_at - stretch.window >= two_hand_check_interval
                  /\ stretch.since # 0
                  /\ stretch.since <= stretch.window

\* a second emote of the session
C12_Witness ==
    /\ session = "clash"
    /\ frame.triggered # None
    /\ stretch.prev_fire # 0
    /\ phase = "running"

\* C13: a frame of ClashEmoteApp.run that starts in emote mode and has fewer
\* than 2 hands ends in mouse mode, and no emote key is pressed in it.
C13_LeaveEmoteModeBelowTwoHands ==
    (session = "clash" /\ frame.op = "frame"
         /\ frame.emote_mode_before /\ frame.num_hands < 2)
        => /\ ~app.emote_mode
           /\ \A i \in DOMAIN frame.cmds : frame.cmds[i].cmd \notin EmoteKeys

\* a frame with a single hand that started in emote mode
C13_Witness ==
    /\ session = "clash"
    /\ frame.op = "frame"
    /\ frame.emote_mode_before
    /\ frame.num_hands = 1

\* C14: for a label that has not fired since it became the smoothed label,
\* get_smoothed_emote returns triggered=True iff the label has been held for
\* at least hold_time and the last trigger of that same label, if any, is at
\* least the cooldown back (inclusive, tracked per label).
C14_FiresIffHeldAndCooledPerLabel ==
    (session = "recognizer" /\ run.label # None
         /\ run.fires = (IF result.triggered THEN 1 ELSE 0))
        => (result.triggered
              <=> /\ now - run.since >= hold_time
                  /\ \/ lastFire[run.label] = 0
                     \/ now - lastFire[run.label] >= cooldown)

\* C15: once the window holds at least half of smoothing_frames entries, the
\* smoothed label of get_smoothed_emote is a label only if that label fills
\* more than half of the entries in the window; on a tie, or when None
\* entries fill half of the window or more, it is None.
C15_StrictMajority ==
    (session = "recognizer" /\ run.label # None)
        => 2 * CountOf(recognizer.emote_history, run.label)
               > Len(recognizer.emote_history)

\* C16: while UltimateEmoteMatcher.match_emote matches the same emote on
\* every frame, it returns triggered=True at most once, however long the
\* emote is held.
C16_HeldPoseFiresOnce ==
    session = "matcher" => run.fires <= 1

\* C17: in HandMouseEmoteApp a frame without hands ends the hold, so an emote
\* fires only when it has been the smoothed label on every frame of the
\* preceding hold_time, the frames without hands included (the observer ends
\* the run of the label on a frame without hands).
C17_HandlessFrameResetsHold ==
    (session = "handmouse" /\ result.triggered)
        => /\ run.label = result.emote
           /\ now - run.since >= hold_time

\* the programs with a smoothing window that can meet a frame without a
\* usable detection
NextDetectionGaps == HandMouseFrame \/ LoopEnds \/ Teardown \/ MatcherFrame

SpecDetectionGaps == (InitHandMouse \/ InitMatcher) /\ [][NextDetectionGaps]_vars

\* C18: a frame without a usable detection puts exactly one None entry into
\* the smoothing window and keeps the earlier entries but the oldest: a frame
\* of HandMouseEmoteApp without hands appends None to the window of the
\* recognizer, and no call of UltimateEmoteMatcher.match_emote shortens its
\* prediction history.
C18_GapAppendsOneNone ==
    [][ /\ (session = "handmouse" /\ now' > now /\ frame'.num_hands = 0)
               => recognizer'.emote_history
                      = DequeAppend(recognizer.emote_history, None, smoothing_frames)
        /\ session = "matcher"
               => Len(matcher'.prediction_history) >= Len(matcher.prediction_history)
      ]_vars

\* C19: after no frame of HandMouseEmoteApp.process_frame is the mode 'emote'
\* while MouseController.is_dragging is true.
C19_NoDragInEmoteMode ==
    session = "handmouse" => ~(app.mode = "emote" /\ controller.is_dragging)

\* C20: a frame of ClashEmoteApp.run or HandMouseEmoteApp.run in which
\* MouseController.update raises the fail-safe exception is the last frame
\* of the session: the loop is left and the teardown follows.
C20_FailSafeStopsSession ==
    (session \in {"clash", "handmouse"} /\ frame.op = "frame"
         /\ frame.updated /\ frame.raised)
        => phase # "running"

----------------------------------------------------------------------------
(* Claims about the mapping from hand to screen *)

\* the call of map_to_screen under Config's zone on a screen 1000 wide with
\* no margin
StatedMapping ==
    /\ session = "mapping"
    /\ probe.called
    /\ probe.self.tracking_zone_min = 10
    /\ probe.self.tracking_zone_max = 90
    /\ probe.self.screen_width = 1000
    /\ probe.self.screen_margin = 0

\* C21: with zone 0.1..0.9, width 1000 and margin 0, map_to_screen sends x = 0.1
\* to 0, 0.9 to 1000, 0.5 to 500 and 0.05 to 0; the result is the clamped
\* position in the zone scaled to the screen, never negative and never beyond
\* the screen.
C21_TrackingZoneRemap ==
    StatedMapping =>
        LET x == probe.out.point[1]
            h == probe.hand[1]
        IN  /\ probe.out.raised = None
            /\ h = 10 => x = 0
            /\ h = 90 => x = 1000
            /\ h = 50 => x = 500
            /\ h = 5 => x = 0
            /\ x >= 0 /\ x <= 1000
            /\ h <= 10 => x = 0
            /\ h >= 90 => x = 1000
            /\ (h > 10 /\ h < 90) => (80 * x <= (h - 10) * 1000 /\ (h - 10) * 1000 < 80 * (x + 1))

C21_Witness ==
    StatedMapping /\ probe.hand[1] = 5 /\ probe.out.point[1] = 0

\* C22: for every input and every margin, map_to_screen returns a point with
\* margin <= x <= screen_width - margin and margin <= y <= screen_height - margin.
C22_WithinMargins ==
    (session = "mapping" /\ probe.called /\ probe.out.raised = None) =>
        /\ probe.self.screen_margin <= probe.out.point[1]
        /\ probe.out.point[1] <= probe.self.screen_width - probe.self.screen_margin
        /\ probe.self.screen_margin <= probe.out.point[2]
        /\ probe.out.point[2] <= probe.self.screen_height - probe.self.screen_margin

\* C29: a MouseController is never built with tracking_zone_min >=
\* tracking_zone_max, so map_to_screen neither divides by zero nor maps a
\* hand moving right to a pointer moving left.
C29_ZoneRejectedAtConstruction ==
    session = "mapping" =>
        /\ probe.self.tracking_zone_min < probe.self.tracking_zone_max
        /\ probe.called => probe.out.raised = None

\* the threshold move_cursor compares with: it is called before handle_click,
\* so the drag state is the one the frame began with
ThresholdOf(self) ==
    IF self.is_dragging THEN drag_movement_threshold ELSE movement_threshold

\* C23: every call of move_cursor updates the smoothed position, and it issues
\* the move command if and only if the distance between the smoothed target
\* and the pointer is equal to or above the movement threshold; while
\* dragging, where the threshold is 0, every nonzero displacement is sent (a
\* displacement of zero, which moves nothing, is left open).
C23_MoveIffAtLeastThreshold ==
    [][ (session = "mouse" /\ frame'.op = "update") =>
            LET target == <<controller'.smooth_x \div SubPixel,
                            controller'.smooth_y \div SubPixel>>
                threshold == ThresholdOf(controller)
            IN  /\ \E hand_x \in HandXs, hand_y \in HandYs :
                       LET screen == map_to_screen(hand_x, hand_y)
                           self1 == smooth_position(controller, screen[1], screen[2])
                       IN  /\ controller'.smooth_x = self1.smooth_x
                           /\ controller'.smooth_y = self1.smooth_y
                /\ DistanceSq(target, device.pointer) > 0 =>
                       (HasCmd(frame', "moveTo")
                           <=> DistanceSq(target, device.pointer) >= threshold * threshold)
                /\ HasCmd(frame', "moveTo") => DistanceSq(target, device.pointer) > 0
      ]_vars

----------------------------------------------------------------------------
(* Claims about the emote dispatchers *)

\* the latest call met an exception of the injection layer
InjectionFailed(out) == \E i \in DOMAIN out.inputs : ~out.inputs[i].ok

\* C24 as stated: EmoteClicker.trigger_emote returns False only when an
\* exception of the injection layer occurs.
C24_FalseOnlyOnException ==
    (session = "EmoteClicker" /\ probe.called /\ probe.out.returned = "False")
        => InjectionFailed(probe.out)

\* C24 (amended): EmoteClicker.trigger_emote returns False exactly when the
\* cooldown has not elapsed, the emote has no key in the map, or an injection
\* raises; whenever it returns False last_emote_time is what it was, and no
\* key is sent twice nor anything sent after the input that raised.
C24_FailureLeavesState ==
    (session = "EmoteClicker" /\ probe.called) =>
        LET out == probe.out
        IN  /\ out.returned = "False"
                   <=> \/ probe.at - probe.before < EmoteClicker_cooldown
                       \/ probe.emote_name \notin DOMAIN emote_key_map
                       \/ InjectionFailed(out)
            /\ out.returned = "False" => probe.self.last_emote_time = probe.before
            /\ \A i, j \in DOMAIN out.inputs :
                   /\ i < j => out.inputs[i].cmd # out.inputs[j].cmd
                   /\ i < j => out.inputs[i].ok

C24_Witness ==
    /\ session = "EmoteClicker"
    /\ probe.called
    /\ probe.out.returned = "False"
    /\ Len(probe.out.inputs) = 2
    /\ probe.out.inputs[1].ok
    /\ ~probe.out.inputs[2].ok

\* the cooldown of the dispatcher the session runs
CooldownOf(kind) ==
    IF kind = "EmoteClicker" THEN EmoteClicker_cooldown
    ELSE IF kind = "EmoteController" THEN EmoteController_cooldown
    ELSE ClashRoyale_emote_cooldown

Dispatchers == {"EmoteClicker", "EmoteController", "ClashRoyaleEmoteController"}

\* C25: for each dispatcher, two dispatches that inject input are at least
\* the cooldown apart, and a dispatch requested during the cooldown injects
\* nothing and leaves last_emote_time unchanged.
C25_InjectionsCooldownApart ==
    (session \in Dispatchers /\ probe.called) =>
        /\ (Injected(probe.out) /\ probe.prev > 0)
               => probe.at - probe.prev >= CooldownOf(session)
        /\ probe.at - probe.before < CooldownOf(session)
               => (probe.out.inputs = <<>> /\ probe.self.last_emote_time = probe.before)

----------------------------------------------------------------------------
(* Claims about the classifiers *)

\* a finger is extended exactly when its tip is above the PIP joint by more
\* than the margin: tip.y < pip.y - 0.02
Extended(landmarks, pair) ==
    landmarks.y[pair[1]] < landmarks.y[pair[2]] - curl_margin

\* C27: is_hand_closed of ClashEmoteApp and of ClashEmoteRecognizer returns
\* closed if and only if at least 3 of the 4 non-thumb fingers are not
\* extended, a tip exactly at pip.y - 0.02 being not extended.
C27_ClosedIffThreeNotExtended ==
    (session = "hands" /\ probe.called # None) =>
        (probe.out <=>
            Cardinality({pair \in FingerPairs : ~Extended(probe.landmarks, pair)}) >= 3)

C28_LoadFailureNeverFatal ==
    (session = "loading" /\ probe.file \in {"absent", "unloadable"})
        => (probe.raised = None /\ probe.phase # "failed")

----------------------------------------------------------------------------
(* Claims about the recognizer's candidate *)

\* C30: when the smoothed label of get_smoothed_emote is None the call returns
\* triggered=False and hold_progress 0 and leaves current_emote None and
\* emote_triggered False; a label that appears afterwards starts its hold at
\* that call, and fires only after a full hold_time from there.
C30_NoneResetsCandidate ==
    session = "recognizer" =>
        /\ result.emote = None =>
               /\ ~result.triggered
               /\ result.hold_progress = 0
               /\ recognizer.current_emote = None
               /\ ~recognizer.emote_triggered
        /\ run.label # None =>
               /\ recognizer.current_emote = run.label
               /\ recognizer.emote_start_time = run.since
        /\ result.triggered => now - recognizer.emote_start_time >= hold_time

\* an emote has fired, and the smoothed label is None while the emote is
\* still in the window
C30_Witness ==
    /\ session = "recognizer"
    /\ result.emote = None
    /\ recognizer.last_trigger_time > 0
    /\ Len(recognizer.emote_history) = smoothing_frames
    /\ \E i \in DOMAIN recognizer.emote_history : recognizer.emote_history[i] # None

----------------------------------------------------------------------------
(* Claims about frames without hands *)

\* C31: on a frame with zero detected hands, in any mode, ClashEmoteApp.run
\* and HandMouseEmoteApp.process_frame do not call MouseController.update:
\* the controller (smoothed position, is_dragging, drag start,
\* previous_gesture) and the pointer are as before, and no command is issued.
C31_NoHandsNoUpdate ==
    [][ (session \in {"clash", "handmouse"} /\ now' # now /\ frame'.op = "frame"
            /\ frame'.num_hands = 0)
           => /\ ~frame'.updated
              /\ frame'.cmds = <<>>
              /\ controller' = controller
              /\ device' = device
      ]_vars

\* the hand disappears in the middle of a drag
C31_Witness ==
    /\ session \in {"clash", "handmouse"}
    /\ frame.op = "frame"
    /\ frame.num_hands = 0
    /\ frame.dragging_before
    /\ controller.is_dragging
    /\ device.button

----------------------------------------------------------------------------
(* Claims about GestureRecognizer *)

\* C32: given 21 valid landmarks, detect_gesture returns open if and only if
\* at least 3 fingers are extended, and closed otherwise.
C32_OpenIffThreeExtended ==
    (session = "gestures" /\ probe.called /\ ~probe.raised
        /\ probe.landmarks.n = LandmarkCount)
        => /\ probe.out.gesture \in {"open", "closed"}
           /\ probe.out.gesture = "open"
                  <=> total_fingers_extended(probe.landmarks) >= 3

\* the keys the latest call pressed through the stable-count path
StableKeys(out) ==
    {out.presses[i].key : i \in {j \in DOMAIN out.presses : out.presses[j].path = "stable"}}

\* C35: detect_gesture presses the number key n through the stable-count path
\* only when 1 <= n <= 4, n fingers have been shown on consecutive frames
\* for at least stable_threshold and n differs from the stable count; after
\* the press the stable count is n, and one uninterrupted showing of n
\* fingers produces at most one key press for n.
C35_StablePressOncePerShowing ==
    (session = "gestures" /\ probe.called) =>
        /\ \A n \in StableKeys(probe.out) :
              /\ 1 <= n /\ n <= 4
              /\ probe.out.total = n
              /\ probe.before.count = n
              /\ now - probe.before.since >= stable_threshold
              /\ n # probe.before.stable
              /\ probe.self.stable_finger_count = n
        /\ probe.shown.presses <= 1

\* n fingers are still shown after the press, a full stable_threshold later
C35_Witness ==
    /\ session = "gestures"
    /\ probe.called
    /\ probe.shown.presses = 1
    /\ StableKeys(probe.out) = {}
    /\ probe.out.total = probe.shown.count
    /\ probe.self.time_at_current_count >= 2 * stable_threshold

\* the latest call re-pressed the stable key on a close
RePressed(out) == \E i \in DOMAIN out.presses : out.presses[i].path = "quick close"

\* C36: detect_gesture re-presses the last stable finger-count key when the
\* hand closes only if the count shown immediately before the close was
\* non-zero, different from the stable count, and had been shown for less
\* than transition_window.
C36_RePressOnlyAfterBriefChange ==
    (session = "gestures" /\ probe.called /\ RePressed(probe.out)) =>
        /\ probe.out.total = 0
        /\ probe.before.count # 0
        /\ probe.before.count # probe.before.stable
        /\ now - probe.before.since < transition_window

----------------------------------------------------------------------------
(* Claims about the matchers *)

\* C33: UltimateEmoteMatcher.match_emote returns triggered=True for E only if
\* E was the matched emote on every frame of the preceding match_hold_time,
\* the frames without a face included (the observer ends the run of E on a
\* frame that matches nothing).
C33_MatchedThroughoutHold ==
    (session = "matcher" /\ result.triggered)
        => /\ run.label = result.emote
           /\ now - run.since >= match_hold_time


\* C34: EmoteMatcher.match_emote returns an emote E only when the 3 latest
\* calls that mapped to an emote, the current one included, all mapped to E;
\* its history never holds more than 3 entries and is empty right after a
\* call that returns an emote, so that an emote is returned only after 3
\* mapped calls since the emote returned before it.
C34_ThreeMappedCallsAgree ==
    (session = "emotematcher") =>
        /\ Len(probe.self.match_history) <= history_size
        /\ (probe.called /\ probe.out # None) =>
              /\ probe.out = probe.emote
              /\ Len(probe.mapped) = history_size
              /\ \A i \in 1 .. history_size : probe.mapped[i] = probe.out
              /\ probe.self.match_history = <<>>
              /\ probe.had = history_size

\* an emote returned a second time, after calls that mapped to other emotes
\* and calls that mapped to none
C34_Witness ==
    /\ session = "emotematcher"
    /\ probe.called
    /\ probe.again
    /\ probe.out = "chicken"
    /\ probe.self.match_history = <<>>

(* Claims about the button and is_dragging *)

\* C37: as long as no command has raised, over any sequence of update,
\* handle_click and cleanup calls the button is down iff is_dragging is true,
\* presses and releases alternate starting with a press, a press is issued
\* only while is_dragging is false and a release only while it is true.
C37_ButtonIffDragging ==
    (session = "controller" /\ phase = "running") =>
        /\ device.button <=> controller.is_dragging
        /\ CountCmd(frame, "mouseDown") + CountCmd(frame, "mouseUp") <= 1
        /\ HasCmd(frame, "mouseDown") =>
              /\ ~frame.dragging_before
              /\ seen.last # "mouseDown"
        /\ HasCmd(frame, "mouseUp") =>
              /\ frame.dragging_before
              /\ seen.last = "mouseDown"

\* the second drag of a sequence, ended by cleanup
C37_Witness ==
    /\ session = "controller"
    /\ phase = "running"
    /\ frame.op = "cleanup"
    /\ HasCmd(frame, "mouseUp")
    /\ seen.presses = 2
    /\ ~device.button

(* Claims about ClashEmoteRecognizer.reset and about holds that go on *)

\* C39: reset empties the smoothing window and clears the candidate and the
\* triggered flag, and leaves last_trigger_time (and the start time) as they
\* were; so, with or without a reset in between, a trigger comes more than
\* the cooldown after every earlier trigger.
C39_ResetKeepsCooldown ==
    /\ [][(/\ session = "recognizer"
           /\ recognizer.emote_history # <<>>
           /\ recognizer'.emote_history = <<>>)
          => /\ recognizer'.current_emote = None
             /\ ~recognizer'.emote_triggered
             /\ recognizer'.last_trigger_time = recognizer.last_trigger_time
             /\ recognizer'.emote_start_time = recognizer.emote_start_time
             /\ now' = now]_vars
    /\ [](session = "recognizer" /\ result.triggered =>
             \A e \in Emotes : lastFire[e] = 0 \/ now - lastFire[e] > cooldown)

\* right after a reset made less than the cooldown after a trigger
C39_Witness ==
    /\ session = "recognizer"
    /\ recognizer.emote_history = <<>>
    /\ recognizer.last_trigger_time >= Epoch
    /\ now - recognizer.last_trigger_time < cooldown
    /\ \E e \in Emotes : lastFire[e] = recognizer.last_trigger_time

\* C38: while L stays the smoothed label on every call and calls go on at
\* later and later times, triggered=True is eventually returned for L, and
\* once only, also when the hold time completes during the cooldown of an
\* earlier trigger. On the bounded clock: a hold of L that has not fired
\* leads to its trigger, to its interruption, or to the end of the clock
\* with the trigger not yet due (hold time incomplete or cooldown running).
HoldDue ==
    /\ now - run.since >= hold_time
    /\ \A e \in Emotes : lastFire[e] = 0 \/ now - lastFire[e] > cooldown

C38_HoldEventuallyFires ==
    /\ \A L \in Emotes :
         (session = "recognizerlive" /\ run.label = L /\ run.fires = 0)
             ~> \/ run.label # L
                \/ run.fires = 1
                \/ ClockEnded /\ ~HoldDue
    /\ [](session = "recognizerlive" => run.fires <= 1)

\* the trigger of a hold whose hold time completed during the cooldown of
\* an earlier trigger
C38_Witness ==
    /\ session = "recognizerlive"
    /\ result.triggered
    /\ run.label = result.emote
    /\ run.fires = 1
    /\ \E e \in Emotes :
         /\ lastFire[e] # 0
         /\ run.since + hold_time - lastFire[e] <= cooldown
         /\ now - lastFire[e] > cooldown

(* Claims about the accepted nearest-neighbour prediction *)

\* C40: when process_emote accepts the prediction of GestureClassifier.predict
\* (k = min(5, N) neighbours), more than half of the k neighbours voted for
\* the predicted label and the mean distance was at most 0.5 (the confidence
\* was not halved); a prediction with a halved confidence is never accepted.
C40_AcceptedIsUnhalvedMajority ==
    (session = "fusion" /\ probe.called) =>
        /\ probe.k = Min(knn_k, Len(probe.self.training_data))
        /\ probe.out.path = "learned" =>
              /\ probe.out.emote = probe.out.prediction.label
              /\ ~probe.far
              /\ probe.out.emote \in TrainingLabels
              /\ 2 * probe.votes[probe.out.emote] > probe.k
        /\ probe.far => probe.out.path # "learned"

\* a prediction accepted with 3 of 5 votes
C40_Witness ==
    /\ session = "fusion"
    /\ probe.called
    /\ probe.out.path = "learned"
    /\ probe.k = knn_k
    /\ probe.votes[probe.out.emote] = 3
    /\ ~probe.far
====
